---- MODULE Spec2Model ----
(***************************************************************************)
(* aegis-api: the attack-simulation orchestrator (run_attack), its two     *)
(* entry points (/ws/attack and POST /api/v1/attack/start) and the         *)
(* /ws/dashboard observers.                                                *)
(*                                                                         *)
(* The server runs on one asyncio event loop: the code between two         *)
(* suspension points (an await, or a yield of the async generator whose    *)
(* consumer awaits) runs atomically.  Every action below is one such       *)
(* segment.  pc[c] names the suspension point at which client c's handler  *)
(* is parked: a_* is an await inside run_attack, y_* is a yield of         *)
(* run_attack whose event the handler is delivering.                       *)
(*                                                                         *)
(* Scores and thresholds are percentages (0.5 is 50); the derived metrics  *)
(* are in ten-thousandths (round(x, 4)).                                   *)
(***************************************************************************)
EXTENDS Integers, Sequences, FiniteSets, TLC

\* ---- bounds of the model ------------------------------------------------
MaxBatch == 2
MaxRuns == 1
MaxUpdates == 5
MaxStarts == 2
MaxIter == 2
MaxBroadcasts == 2
MaxJointBatch == 1
MaxJointStarts == 1
MaxCalls == 2
MaxLongBatch == 52
MaxSuccessiveRuns == 2
MaxRngPosition == 60

\* ---- program constants --------------------------------------------------
DEFAULT_THRESHOLD == 50
COMMIT_EVERY == 50
STATS_EVERY == 10
ROI_UNIT == 1500000
ROUND_SCALE == 10000
MIN_FRAUD_TARGET == 10
FRAUD_TYPES == 5
MIN_PER_TYPE == 2
VELOCITY_DIV == 10
CARD_TESTING_DIV == 7
COLLUSION_DIV == 8
GEO_DIV == 2
MIN_TOTAL == 10
MAX_TOTAL == 10000
MIN_FRAUD_PCT == 1
MAX_FRAUD_PCT == 50
N_ISSUERS == 9
N_MERCHANTS == 12
N_CITIES == 10

\* ---- the processes ------------------------------------------------------
RestClients == {"rest1"}
WsClients == {"ws1"}
Clients == RestClients \cup WsClients
Observers == {"obs1", "obs2"}

\* ---- inputs -------------------------------------------------------------
FraudTypes == {"velocity_attack", "card_testing"}
TxnKinds == {[is_fraud |-> FALSE, fraud_type |-> "None"]}
              \cup {[is_fraud |-> TRUE, fraud_type |-> t] : t \in FraudTypes}
\* a batch holds fraud transactions whatever total and fraud_pct are
Batches ==
    {b \in UNION {[1..n -> TxnKinds] : n \in 1..MaxBatch} :
        \E k \in DOMAIN b : b[k].is_fraud}
ScoreRange == 0..100
NoEvent == [type |-> "none", level |-> "", data |-> <<>>]
Ev(type, level, data) == [type |-> type, level |-> level, data |-> data]
ServiceScores == {80}
FallbackScores == {20, 80}
InfoReplies == {[mode |-> "LIVE", threshold |-> 90]}

VARIABLES attack_running, current_stats, pc, loc, events, event, db_runs, db_txns,
          dashboard_clients, obs_pc, obs_recv,
          stats, gen, batches, filler_task, filler_stats, filler_loop, filler_ret,
          filler_rows, bcast, persist

vars == <<attack_running, current_stats, pc, loc, events, event, db_runs, db_txns,
          dashboard_clients, obs_pc, obs_recv,
          stats, gen, batches, filler_task, filler_stats, filler_loop, filler_ret,
          filler_rows, bcast, persist>>
attackVars == <<attack_running, current_stats, pc, loc, events, event, db_runs, db_txns>>
dashVars == <<dashboard_clients, obs_pc, obs_recv>>
statsVars == <<stats>>
genVars == <<gen, batches>>
fillVars == <<filler_task, filler_stats, filler_loop, filler_ret, filler_rows>>
bcastVars == <<bcast>>
persistVars == <<persist>>
extVars == <<statsVars, genVars, fillVars, bcastVars, persistVars>>

\* ---- StatsSnapshot ------------------------------------------------------
StatsSnapshot ==
    [total |-> 0, approved |-> 0, flagged |-> 0,
     tp |-> 0, fp |-> 0, tn |-> 0, fn |-> 0,
     recall |-> 0, precision |-> 0, f1 |-> 0, fpr |-> 0,
     per_type |-> [t \in FraudTypes |-> 0],
     per_type_total |-> [t \in FraudTypes |-> 0],
     roi_saved |-> 0]

Max(a, b) == IF a >= b THEN a ELSE b

\* the integer nearest to num / den, ties to even
RoundDiv(num, den) ==
    LET q == num \div den
        r == num % den
    IN  IF 2 * r > den \/ (2 * r = den /\ q % 2 = 1) THEN q + 1 ELSE q

\* round(num / den, 4), in ten-thousandths
Round4(num, den) == RoundDiv(num * ROUND_SCALE, den)

\* F1Score, without the factor 2
F1Score_NoFactor(p, r) == IF p + r = 0 THEN 0 ELSE RoundDiv(p * r, p + r)

\* round(2 * precision * recall / max(precision + recall, 1e-8), 4), in ten-thousandths
F1Score(p, r) == IF p + r = 0 THEN 0 ELSE RoundDiv(2 * p * r, p + r)

\* Counted, with a missed fraud not counted as approved
Counted_FnNotApproved(s, is_fraud, ft, is_flagged) ==
    LET s1 == [s EXCEPT !.total = @ + 1]
    IN  IF is_fraud
        THEN LET s2 == [s1 EXCEPT !.per_type_total[ft] = @ + 1]
             IN  IF is_flagged
                 THEN [s2 EXCEPT !.tp = @ + 1, !.flagged = @ + 1,
                                 !.per_type[ft] = @ + 1]
                 ELSE [s2 EXCEPT !.fn = @ + 1]
        ELSE IF is_flagged
             THEN [s1 EXCEPT !.fp = @ + 1, !.flagged = @ + 1]
             ELSE [s1 EXCEPT !.tn = @ + 1, !.approved = @ + 1]

\* Counted, with a missed fraud counted as detected for its type
Counted_PerTypeOnMiss(s, is_fraud, ft, is_flagged) ==
    LET s1 == [s EXCEPT !.total = @ + 1]
    IN  IF is_fraud
        THEN LET s2 == [s1 EXCEPT !.per_type_total[ft] = @ + 1,
                                  !.per_type[ft] = @ + 1]
             IN  IF is_flagged
                 THEN [s2 EXCEPT !.tp = @ + 1, !.flagged = @ + 1]
                 ELSE [s2 EXCEPT !.fn = @ + 1, !.approved = @ + 1]
        ELSE IF is_flagged
             THEN [s1 EXCEPT !.fp = @ + 1, !.flagged = @ + 1]
             ELSE [s1 EXCEPT !.tn = @ + 1, !.approved = @ + 1]

Counted(s, is_fraud, ft, is_flagged) ==
    LET s1 == [s EXCEPT !.total = @ + 1]
    IN  IF is_fraud
        THEN LET s2 == [s1 EXCEPT !.per_type_total[ft] = @ + 1]
             IN  IF is_flagged
                 THEN [s2 EXCEPT !.tp = @ + 1, !.flagged = @ + 1,
                                 !.per_type[ft] = @ + 1]
                 ELSE [s2 EXCEPT !.fn = @ + 1, !.approved = @ + 1]
        ELSE IF is_flagged
             THEN [s1 EXCEPT !.fp = @ + 1, !.flagged = @ + 1]
             ELSE [s1 EXCEPT !.tn = @ + 1, !.approved = @ + 1]

\* Derived, with precision over the false positives alone
Derived_PrecisionOverFp(s) ==
    LET recall == Round4(s.tp, Max(s.tp + s.fn, 1))
        precision == Round4(s.tp, Max(s.fp, 1))
    IN  [s EXCEPT !.recall = recall,
                  !.precision = precision,
                  !.f1 = F1Score(precision, recall),
                  !.fpr = Round4(s.fp, Max(s.fp + s.tn, 1)),
                  !.roi_saved = s.tp * ROI_UNIT]

\* Derived, with roi_saved counted over every flagged transaction
Derived_RoiOverFlagged(s) ==
    LET recall == Round4(s.tp, Max(s.tp + s.fn, 1))
        precision == Round4(s.tp, Max(s.tp + s.fp, 1))
    IN  [s EXCEPT !.recall = recall,
                  !.precision = precision,
                  !.f1 = F1Score(precision, recall),
                  !.fpr = Round4(s.fp, Max(s.fp + s.tn, 1)),
                  !.roi_saved = s.flagged * ROI_UNIT]

Derived(s) ==
    LET recall == Round4(s.tp, Max(s.tp + s.fn, 1))
        precision == Round4(s.tp, Max(s.tp + s.fp, 1))
    IN  [s EXCEPT !.recall = recall,
                  !.precision = precision,
                  !.f1 = F1Score(precision, recall),
                  !.fpr = Round4(s.fp, Max(s.fp + s.tn, 1)),
                  !.roi_saved = s.tp * ROI_UNIT]

UpdateStats(s, is_fraud, ft, is_flagged) == Derived(Counted(s, is_fraud, ft, is_flagged))

\* ---- the locals of one run_attack invocation -----------------------------
\* stats are the result columns of the RunRecord, at their defaults until the run
\* is finalized
NoRun == [id |-> 0, status |-> "none", mode |-> "none", stats |-> StatsSnapshot]

InitLoc ==
    [threshold |-> DEFAULT_THRESHOLD, mode |-> "SIMULATION", all_txns |-> <<>>,
     i |-> 0, score |-> 0, is_flagged |-> FALSE, xai_reasons |-> 0,
     attack_run |-> NoRun, pending |-> 0, failure |-> "none", agreed |-> TRUE]

\* ---- generate_attack_batch: its locals ------------------------------------
NoBatch ==
    [pc |-> "idle", total |-> 0, fraud_pct |-> 0, n_normal |-> 0, fpt |-> 0,
     calls |-> 0, n_txns |-> 0, n_fraud |-> 0]

\* the arguments of generate_attack_batch, and what its calls with them returned
NoCalls ==
    [args |-> [total |-> 0, fraud_pct |-> 0, seed |-> 0], prefix |-> <<>>, all_txns |-> <<>>]

\* ---- data_filler: _filler_stats, and the locals of _filler_loop ----------
NoTime == 0
NoTask == 0
FillerStats ==
    [is_running |-> FALSE, total_inserted |-> 0, started_at |-> NoTime,
     last_txn_at |-> NoTime, interval_range |-> <<20, 50>>, fraud_ratio |-> 8]
NoLoop == [task |-> NoTask, pc |-> "none", txn_counter |-> 0]
NoResponse == [op |-> "none", value |-> FALSE]

\* ---- broadcast: its locals ------------------------------------------------
\* next is the index the list iterator of `for ws in dashboard_clients` holds, ws the
\* socket of the send in progress, registered the sockets listed when the call began,
\* calls the number of calls so far
NoBroadcast ==
    [pc |-> "idle", event |-> "none", next |-> 0, ws |-> "none", dead |-> <<>>,
     registered |-> {}, calls |-> 0]

\* the session of a run of many transactions, reduced to its rows: n is
\* len(all_txns), i the loop index, pending the rows added since the last commit,
\* committed the durable rows, lost the rows a failed commit dropped
NoSession ==
    [pc |-> "idle", n |-> 0, i |-> 0, pending |-> 0, committed |-> 0, lost |-> 0]

Init ==
    /\ attack_running = FALSE
    /\ current_stats = StatsSnapshot
    /\ pc = [c \in Clients |-> IF c \in WsClients THEN "closed" ELSE "idle"]
    /\ loc = [c \in Clients |-> InitLoc]
    /\ events = [c \in Clients |-> <<>>]
    /\ event = [c \in Clients |-> NoEvent]
    /\ db_runs = <<>>
    /\ db_txns = <<>>
    /\ dashboard_clients = <<>>
    /\ obs_pc = [o \in Observers |-> "closed"]
    /\ obs_recv = [o \in Observers |-> <<>>]
    /\ stats = StatsSnapshot
    /\ gen = NoBatch
    /\ batches = NoCalls
    /\ filler_task = NoTask
    /\ filler_stats = FillerStats
    /\ filler_loop = NoLoop
    /\ filler_ret = NoResponse
    /\ filler_rows = 0
    /\ bcast = NoBroadcast
    /\ persist = NoSession

\* ---- helpers of the actions ----------------------------------------------
\* run_attack yields ev to c's handler: event[c] is the handler's loop variable,
\* events[c] the types of the events of this request so far, in order
Yield(c, ev) ==
    /\ event' = [event EXCEPT ![c] = ev]
    /\ events' = [events EXCEPT ![c] = Append(@, ev.type)]

NoYield == UNCHANGED <<events, event>>

\* the handler has sent the event and resumes the generator, which reaches an
\* await before its next yield
Consumed(c) ==
    /\ event' = [event EXCEPT ![c] = NoEvent]
    /\ UNCHANGED events

Goto(c, p) == pc' = [pc EXCEPT ![c] = p]

Count(seq, t) == Cardinality({k \in DOMAIN seq : seq[k] = t})

\* the suspension points of run_attack
AwaitPcs ==
    {"a_hdr_commit", "a_hdr_refresh", "a_health", "a_info", "a_mode_commit",
     "a_score", "a_explain", "a_batch_commit", "a_sleep", "a_final_commit",
     "a_finalize_commit", "a_fail_commit"}
TryYieldPcs ==
    {"y_log_connect", "y_log_warn", "y_log_mode", "y_log_gen", "y_log_ready",
     "y_attack_start", "y_txn", "y_stats", "y_log_done", "y_attack_end"}
\* a handler parked here has no run_attack invocation in flight
ReadyPcs == {"idle", "http_500", "http_422"}
\* an invocation of run_attack is past the guard and has not run its finally
InRunPcs == AwaitPcs \cup TryYieldPcs \cup {"orphaned"}

\* how a handler ends: it is ready for the next request (the socket handler is
\* back in receive_text), or the exception leaves it (the REST call answers
\* 500, the socket handler dies)
Returned(c) == "idle"
Raised(c) == IF c \in RestClients THEN "http_500" ELSE "crashed"

EndRequest(c, p) ==
    /\ Goto(c, p)
    /\ loc' = [loc EXCEPT ![c] = InitLoc]
    /\ events' = [events EXCEPT ![c] = <<>>]
    /\ event' = [event EXCEPT ![c] = NoEvent]

\* AsyncSession.commit: the RunRecord's dirty attributes and the pending rows
\* become durable
Persisted(runs, ar) ==
    [runs EXCEPT ![ar.id] = [status |-> ar.status, stats |-> ar.stats]]
RowsFlushed(rows, l) ==
    [rows EXCEPT ![l.attack_run.id] = @ + l.pending]

\* ---- /ws/attack: accept, receive_text --------------------------------------
WsConnect(c) ==
    /\ c \in WsClients
    /\ pc[c] \in {"closed", "crashed"}
    /\ Goto(c, "idle")
    /\ UNCHANGED <<attack_running, current_stats, loc, events, event, db_runs, db_txns, dashVars, extVars>>

WsDisconnectIdle(c) ==
    /\ c \in WsClients
    /\ pc[c] = "idle"
    /\ Goto(c, "closed")
    /\ UNCHANGED <<attack_running, current_stats, loc, events, event, db_runs, db_txns, dashVars, extVars>>

\* ---- AttackConfig: the validation of a request -----------------------------------
\* fraud_pct in percent
AttackConfigs ==
    [total : {MIN_TOTAL - 1, MIN_TOTAL, MAX_TOTAL, MAX_TOTAL + 1},
     fraud_pct : {MIN_FRAUD_PCT - 1, MIN_FRAUD_PCT, MAX_FRAUD_PCT, MAX_FRAUD_PCT + 1}]

\* Field(ge=10, le=10000), Field(ge=0.01, le=0.5)
ValidConfig(cfg) ==
    /\ cfg.total >= MIN_TOTAL /\ cfg.total <= MAX_TOTAL
    /\ cfg.fraud_pct >= MIN_FRAUD_PCT /\ cfg.fraud_pct <= MAX_FRAUD_PCT

\* how a request with an invalid config ends: the REST call answers 422 ahead of
\* its handler, the socket handler dies of the ValidationError
Invalid(c) == IF c \in RestClients THEN "http_422" ELSE "crashed"

\* StartInvalid, with the validation after the reset of the statistics
StartInvalid_AfterReset(c) ==
    /\ pc[c] \in ReadyPcs
    /\ \E cfg \in AttackConfigs : ~ValidConfig(cfg)
    /\ current_stats' = StatsSnapshot
    /\ Goto(c, Invalid(c))
    /\ UNCHANGED <<attack_running, loc, events, event, db_runs, db_txns, dashVars, extVars>>

\* AttackConfig(...) raises before run_attack is called
StartInvalid(c) ==
    /\ pc[c] \in ReadyPcs
    /\ \E cfg \in AttackConfigs : ~ValidConfig(cfg)
    /\ Goto(c, Invalid(c))
    /\ UNCHANGED <<attack_running, current_stats, loc, events, event, db_runs, db_txns, dashVars, extVars>>

\* ---- run_attack: the guard ---------------------------------------------------
\* StartRejected, with the reset of the statistics ahead of the guard
StartRejected_ResetsStats(c) ==
    /\ pc[c] \in ReadyPcs
    /\ attack_running
    /\ current_stats' = StatsSnapshot
    /\ Yield(c, Ev("error", "", <<>>))
    /\ Goto(c, "y_error")
    /\ UNCHANGED <<attack_running, loc, db_runs, db_txns, dashVars, extVars>>

StartRejected(c) ==
    /\ pc[c] \in ReadyPcs
    /\ attack_running
    /\ Yield(c, Ev("error", "", <<>>))
    /\ Goto(c, "y_error")
    /\ UNCHANGED <<attack_running, current_stats, loc, db_runs, db_txns, dashVars, extVars>>

\* StartAccepted, with attack_running left for after the first await
StartAccepted_FlagNotSet(c) ==
    /\ pc[c] \in ReadyPcs
    /\ ~attack_running
    /\ Len(db_runs) < MaxRuns
    /\ current_stats' = StatsSnapshot
    /\ loc' = [loc EXCEPT ![c] =
                 [InitLoc EXCEPT !.attack_run =
                     [NoRun EXCEPT !.status = "running"]]]
    /\ NoYield
    /\ Goto(c, "a_hdr_commit")
    /\ UNCHANGED <<attack_running, db_runs, db_txns, dashVars, extVars>>

\* StartAcceptedUpTo, with the statistics of the run before kept
StartAcceptedUpTo_KeepsStats(c, runs) ==
    /\ pc[c] \in ReadyPcs
    /\ ~attack_running
    /\ Len(db_runs) < runs
    /\ attack_running' = TRUE
    /\ loc' = [loc EXCEPT ![c] =
                 [InitLoc EXCEPT !.attack_run =
                     [NoRun EXCEPT !.status = "running"]]]
    /\ NoYield
    /\ Goto(c, "a_hdr_commit")
    /\ UNCHANGED <<current_stats, db_runs, db_txns, dashVars, extVars>>

\* the guard is passed: attack_running = True, current_stats = StatsSnapshot(), up
\* to the await of the header's commit; runs caps the number of stored RunRecords
StartAcceptedUpTo(c, runs) ==
    /\ pc[c] \in ReadyPcs
    /\ ~attack_running
    /\ Len(db_runs) < runs
    /\ attack_running' = TRUE
    /\ current_stats' = StatsSnapshot
    /\ loc' = [loc EXCEPT ![c] =
                 [InitLoc EXCEPT !.attack_run =
                     [NoRun EXCEPT !.status = "running"]]]
    /\ NoYield
    /\ Goto(c, "a_hdr_commit")
    /\ UNCHANGED <<db_runs, db_txns, dashVars, extVars>>

StartAccepted(c) == StartAcceptedUpTo(c, MaxRuns)

ErrorDelivered(c) ==
    /\ pc[c] = "y_error"
    /\ EndRequest(c, Returned(c))
    /\ UNCHANGED <<attack_running, current_stats, db_runs, db_txns, dashVars, extVars>>

\* ---- run_attack: the RunRecord header, before the try ------------------------
HeaderCommitOk(c) ==
    /\ pc[c] = "a_hdr_commit"
    /\ db_runs' = Append(db_runs, [status |-> "running", stats |-> StatsSnapshot])
    /\ db_txns' = Append(db_txns, 0)
    /\ loc' = [loc EXCEPT ![c].attack_run.id = Len(db_runs) + 1]
    /\ Goto(c, "a_hdr_refresh")
    /\ UNCHANGED <<attack_running, current_stats, events, event, dashVars, extVars>>

HeaderCommitFail(c) ==
    /\ pc[c] = "a_hdr_commit"
    /\ EndRequest(c, Raised(c))
    /\ UNCHANGED <<attack_running, current_stats, db_runs, db_txns, dashVars, extVars>>

HeaderRefreshOk(c) ==
    /\ pc[c] = "a_hdr_refresh"
    /\ Yield(c, Ev("log", "info", <<>>))
    /\ Goto(c, "y_log_connect")
    /\ UNCHANGED <<attack_running, current_stats, loc, db_runs, db_txns, dashVars, extVars>>

HeaderRefreshFail(c) ==
    /\ pc[c] = "a_hdr_refresh"
    /\ EndRequest(c, Raised(c))
    /\ UNCHANGED <<attack_running, current_stats, db_runs, db_txns, dashVars, extVars>>

\* ---- run_attack: the except handler and the finally -------------------------
\* an exception inside the try, raised by cause: the session's transaction is
\* lost (its pending rows), attack_run.status = "failed", await commit
EnterExcept(c, cause) ==
    /\ loc' = [loc EXCEPT ![c].attack_run.status = "failed",
                          ![c].pending = 0,
                          ![c].failure = cause]
    /\ Goto(c, "a_fail_commit")
    /\ UNCHANGED <<attack_running, current_stats, events, event, db_runs, db_txns, dashVars, extVars>>

\* the commit of status failed went through: raise, finally
FailCommitOk(c) ==
    /\ pc[c] = "a_fail_commit"
    /\ db_runs' = Persisted(db_runs, loc[c].attack_run)
    /\ attack_running' = FALSE
    /\ EndRequest(c, Raised(c))
    /\ UNCHANGED <<current_stats, db_txns, dashVars, extVars>>

\* the commit of status failed raised as well: its exception leaves through the finally
FailCommitFail(c) ==
    /\ pc[c] = "a_fail_commit"
    /\ attack_running' = FALSE
    /\ EndRequest(c, Raised(c))
    /\ UNCHANGED <<current_stats, db_runs, db_txns, dashVars, extVars>>

\* ---- run_attack: 1. health, 2. model info -------------------------------------
ConnectLogDelivered(c) ==
    /\ pc[c] = "y_log_connect"
    /\ Consumed(c)
    /\ Goto(c, "a_health")
    /\ UNCHANGED <<attack_running, current_stats, loc, db_runs, db_txns, dashVars, extVars>>

HealthOk(c) ==
    /\ pc[c] = "a_health"
    /\ Goto(c, "a_info")
    /\ UNCHANGED <<attack_running, current_stats, loc, events, event, db_runs, db_txns, dashVars, extVars>>

HealthFail(c) ==
    /\ pc[c] = "a_health"
    /\ Yield(c, Ev("log", "warning", <<>>))
    /\ Goto(c, "y_log_warn")
    /\ UNCHANGED <<attack_running, current_stats, loc, db_runs, db_txns, dashVars, extVars>>

WarnLogDelivered(c) ==
    /\ pc[c] = "y_log_warn"
    /\ Consumed(c)
    /\ Goto(c, "a_info")
    /\ UNCHANGED <<attack_running, current_stats, loc, db_runs, db_txns, dashVars, extVars>>

InfoOk(c) ==
    /\ pc[c] = "a_info"
    /\ \E r \in InfoReplies :
          loc' = [loc EXCEPT ![c].mode = r.mode, ![c].threshold = r.threshold]
    /\ Yield(c, Ev("log", "info", <<>>))
    /\ Goto(c, "y_log_mode")
    /\ UNCHANGED <<attack_running, current_stats, db_runs, db_txns, dashVars, extVars>>

InfoFail(c) ==
    /\ pc[c] = "a_info"
    /\ Yield(c, Ev("log", "info", <<>>))
    /\ Goto(c, "y_log_mode")
    /\ UNCHANGED <<attack_running, current_stats, loc, db_runs, db_txns, dashVars, extVars>>

ModeLogDelivered(c) ==
    /\ pc[c] = "y_log_mode"
    /\ loc' = [loc EXCEPT ![c].attack_run.mode = loc[c].mode]
    /\ Consumed(c)
    /\ Goto(c, "a_mode_commit")
    /\ UNCHANGED <<attack_running, current_stats, db_runs, db_txns, dashVars, extVars>>

ModeCommitOk(c) ==
    /\ pc[c] = "a_mode_commit"
    /\ db_runs' = Persisted(db_runs, loc[c].attack_run)
    /\ Yield(c, Ev("log", "info", <<>>))
    /\ Goto(c, "y_log_gen")
    /\ UNCHANGED <<attack_running, current_stats, loc, db_txns, dashVars, extVars>>

ModeCommitFail(c) ==
    /\ pc[c] = "a_mode_commit"
    /\ EnterExcept(c, "storage")

\* ---- run_attack: 3. generate_attack_batch --------------------------------------
NActualFraud(txns) == Cardinality({k \in DOMAIN txns : txns[k].is_fraud})

GenLogDelivered(c) ==
    /\ pc[c] = "y_log_gen"
    /\ \E b \in Batches : loc' = [loc EXCEPT ![c].all_txns = b]
    /\ Yield(c, Ev("log", "info", <<>>))
    /\ Goto(c, "y_log_ready")
    /\ UNCHANGED <<attack_running, current_stats, db_runs, db_txns, dashVars, extVars>>

\* ReadyLogDelivered, without the yield of attack_start
ReadyLogDelivered_NoStart(c) ==
    /\ pc[c] = "y_log_ready"
    /\ loc' = [loc EXCEPT ![c].i = 0]
    /\ Consumed(c)
    /\ Goto(c, "a_score")
    /\ UNCHANGED <<attack_running, current_stats, db_runs, db_txns, dashVars, extVars>>

ReadyLogDelivered(c) ==
    /\ pc[c] = "y_log_ready"
    /\ Yield(c, Ev("attack_start", "",
                   [total |-> Len(loc[c].all_txns),
                    fraud |-> NActualFraud(loc[c].all_txns)]))
    /\ Goto(c, "y_attack_start")
    /\ UNCHANGED <<attack_running, current_stats, loc, db_runs, db_txns, dashVars, extVars>>

AttackStartDelivered(c) ==
    /\ pc[c] = "y_attack_start"
    /\ loc' = [loc EXCEPT ![c].i = 0]
    /\ Consumed(c)
    /\ Goto(c, "a_score")
    /\ UNCHANGED <<attack_running, current_stats, db_runs, db_txns, dashVars, extVars>>

\* ---- run_attack: 4. score and stream each transaction ------------------------
TxnEvent(l) ==
    LET txn == l.all_txns[l.i + 1]
    IN  [index |-> l.i, risk_score |-> l.score, is_flagged |-> l.is_flagged,
         is_fraud |-> txn.is_fraud, fraud_type |-> txn.fraud_type,
         xai_reasons |-> l.xai_reasons]

\* "Update stats" and the yield of the transaction event
UpdateAndYield(c, l) ==
    LET txn == l.all_txns[l.i + 1]
    IN  /\ current_stats' =
              UpdateStats(current_stats, txn.is_fraud, txn.fraud_type, l.is_flagged)
        /\ loc' = [loc EXCEPT ![c] = l]
        /\ Yield(c, Ev("transaction", "", TxnEvent(l)))
        /\ Goto(c, "y_txn")

\* "Persist to DB": db.add, and a commit when i % 50 == 0
PersistAndContinue(c, l) ==
    LET l2 == [l EXCEPT !.pending = @ + 1]
    IN  IF l.i % COMMIT_EVERY = 0
        THEN /\ loc' = [loc EXCEPT ![c] = l2]
             /\ Goto(c, "a_batch_commit")
             /\ UNCHANGED <<current_stats, events, event>>
        ELSE UpdateAndYield(c, l2)

\* after scoring: "Get XAI if flagged".  agreed records whether every verdict
\* of the run so far is the transaction's ground truth
AfterScore(c, l0) ==
    LET l == [l0 EXCEPT !.agreed = @ /\ (l0.is_flagged = l0.all_txns[l0.i + 1].is_fraud)]
    IN  IF l.is_flagged
        THEN /\ loc' = [loc EXCEPT ![c] = l]
             /\ Goto(c, "a_explain")
             /\ UNCHANGED <<current_stats, events, event>>
        ELSE PersistAndContinue(c, l)

ScoreOk(c) ==
    /\ pc[c] = "a_score"
    /\ \E sc \in ServiceScores, fl \in BOOLEAN :
          AfterScore(c, [loc[c] EXCEPT !.score = sc, !.is_flagged = fl,
                                       !.xai_reasons = 0])
    /\ UNCHANGED <<attack_running, db_runs, db_txns, dashVars, extVars>>

\* ScoreFail, without the try around predict
ScoreFail_Propagates(c) ==
    /\ pc[c] = "a_score"
    /\ EnterExcept(c, "scorer")

\* the fallback: a Beta draw, flagged when score >= threshold
ScoreFail(c) ==
    /\ pc[c] = "a_score"
    /\ \E sc \in FallbackScores :
          AfterScore(c, [loc[c] EXCEPT !.score = sc,
                                       !.is_flagged = (sc >= loc[c].threshold),
                                       !.xai_reasons = 0])
    /\ UNCHANGED <<attack_running, db_runs, db_txns, dashVars, extVars>>

ExplainOk(c) ==
    /\ pc[c] = "a_explain"
    /\ PersistAndContinue(c, [loc[c] EXCEPT !.xai_reasons = 1])
    /\ UNCHANGED <<attack_running, db_runs, db_txns, dashVars, extVars>>

\* ExplainFail, without the try around explain_transaction
ExplainFail_Propagates(c) ==
    /\ pc[c] = "a_explain"
    /\ EnterExcept(c, "explain")

ExplainFail(c) ==
    /\ pc[c] = "a_explain"
    /\ PersistAndContinue(c, loc[c])
    /\ UNCHANGED <<attack_running, db_runs, db_txns, dashVars, extVars>>

BatchCommitOk(c) ==
    /\ pc[c] = "a_batch_commit"
    /\ db_txns' = RowsFlushed(db_txns, loc[c])
    /\ UpdateAndYield(c, [loc[c] EXCEPT !.pending = 0])
    /\ UNCHANGED <<attack_running, db_runs, dashVars, extVars>>

BatchCommitFail(c) ==
    /\ pc[c] = "a_batch_commit"
    /\ EnterExcept(c, "storage")

\* "Stats update every 10 txns", and on the last one; score, is_flagged and
\* xai_reasons are dead from here until the next iteration assigns them
TxnDelivered(c) ==
    /\ pc[c] = "y_txn"
    /\ IF loc[c].i % STATS_EVERY = 0 \/ loc[c].i = Len(loc[c].all_txns) - 1
       THEN /\ Yield(c, Ev("stats_update", "", current_stats))
            /\ Goto(c, "y_stats")
       ELSE /\ Consumed(c)
            /\ Goto(c, "a_sleep")
    /\ loc' = [loc EXCEPT ![c].score = 0, ![c].is_flagged = FALSE,
                          ![c].xai_reasons = 0]
    /\ UNCHANGED <<attack_running, current_stats, db_runs, db_txns, dashVars, extVars>>

StatsDelivered(c) ==
    /\ pc[c] = "y_stats"
    /\ Consumed(c)
    /\ Goto(c, "a_sleep")
    /\ UNCHANGED <<attack_running, current_stats, loc, db_runs, db_txns, dashVars, extVars>>

\* asyncio.sleep(delay) is over: the next transaction, or the "Final DB commit"
SleepDone(c) ==
    /\ pc[c] = "a_sleep"
    /\ IF loc[c].i + 1 < Len(loc[c].all_txns)
       THEN /\ loc' = [loc EXCEPT ![c].i = @ + 1]
            /\ Goto(c, "a_score")
       ELSE /\ Goto(c, "a_final_commit")
            /\ UNCHANGED loc
    /\ UNCHANGED <<attack_running, current_stats, events, event, db_runs, db_txns, dashVars, extVars>>

\* ---- run_attack: finalization ----------------------------------------------------
\* FinalCommitOk, with the result columns left at their defaults
FinalCommitOk_NoSnapshot(c) ==
    /\ pc[c] = "a_final_commit"
    /\ db_txns' = RowsFlushed(db_txns, loc[c])
    /\ loc' = [loc EXCEPT ![c].pending = 0, ![c].attack_run.status = "completed"]
    /\ Goto(c, "a_finalize_commit")
    /\ UNCHANGED <<attack_running, current_stats, events, event, db_runs, dashVars, extVars>>

\* the final commit, then "Update attack run record": the counters and metrics of
\* s are copied to the RunRecord and its status is set, up to the await of the commit
FinalCommitOk(c) ==
    /\ pc[c] = "a_final_commit"
    /\ db_txns' = RowsFlushed(db_txns, loc[c])
    /\ loc' = [loc EXCEPT ![c].pending = 0, ![c].attack_run.status = "completed",
                          ![c].attack_run.stats = current_stats]
    /\ Goto(c, "a_finalize_commit")
    /\ UNCHANGED <<attack_running, current_stats, events, event, db_runs, dashVars, extVars>>

FinalCommitFail(c) ==
    /\ pc[c] = "a_final_commit"
    /\ EnterExcept(c, "storage")

FinalizeCommitOk(c) ==
    /\ pc[c] = "a_finalize_commit"
    /\ db_runs' = Persisted(db_runs, loc[c].attack_run)
    /\ Yield(c, Ev("log", "success", <<>>))
    /\ Goto(c, "y_log_done")
    /\ UNCHANGED <<attack_running, current_stats, loc, db_txns, dashVars, extVars>>

FinalizeCommitFail(c) ==
    /\ pc[c] = "a_finalize_commit"
    /\ EnterExcept(c, "storage")

DoneLogDelivered(c) ==
    /\ pc[c] = "y_log_done"
    /\ Yield(c, Ev("attack_end", "", current_stats))
    /\ Goto(c, "y_attack_end")
    /\ UNCHANGED <<attack_running, current_stats, loc, db_runs, db_txns, dashVars, extVars>>

\* the generator is resumed a last time: the finally runs and it returns
AttackEndDelivered(c) ==
    /\ pc[c] = "y_attack_end"
    /\ attack_running' = FALSE
    /\ EndRequest(c, Returned(c))
    /\ UNCHANGED <<current_stats, db_runs, db_txns, dashVars, extVars>>

\* ---- POST /api/v1/attack/start: the response ----------------------------------------
\* final_stats = {}
EmptyDict == <<>>

\* RestResponse, with every event of the run kept in transactions
RestResponse_CountsAllEvents(c) ==
    [status |-> 200,
     stats |-> IF event[c].type = "attack_end" THEN event[c].data ELSE EmptyDict,
     total_transactions |-> Len(events[c])]

\* what start_attack_rest returns when the generator is exhausted: the handler keeps
\* the data of transaction and attack_end events and skips every other event
RestResponse(c) ==
    [status |-> 200,
     stats |-> IF event[c].type = "attack_end" THEN event[c].data ELSE EmptyDict,
     total_transactions |-> Count(events[c], "transaction")]

\* ---- /ws/attack: the client goes away while an event is sent to it ------------
\* send_text raises, ws_attack ends and its session is closed; the generator is
\* left suspended at its yield until the event loop's finalizer closes it
WsDisconnect(c) ==
    /\ c \in WsClients
    /\ pc[c] \in TryYieldPcs
    /\ Goto(c, "orphaned")
    /\ loc' = [loc EXCEPT ![c].pending = 0]
    /\ events' = [events EXCEPT ![c] = <<>>]
    /\ event' = [event EXCEPT ![c] = NoEvent]
    /\ UNCHANGED <<attack_running, current_stats, db_runs, db_txns, dashVars, extVars>>

WsDisconnectOnError(c) ==
    /\ c \in WsClients
    /\ pc[c] = "y_error"
    /\ EndRequest(c, "closed")
    /\ UNCHANGED <<attack_running, current_stats, db_runs, db_txns, dashVars, extVars>>

\* aclose() throws GeneratorExit at the yield: no except clause, the finally
Finalize(c) ==
    /\ pc[c] = "orphaned"
    /\ attack_running' = FALSE
    /\ EndRequest(c, "closed")
    /\ UNCHANGED <<current_stats, db_runs, db_txns, dashVars, extVars>>

\* ---- /ws/dashboard -----------------------------------------------------------------
Remove(list, x) == SelectSeq(list, LAMBDA y : y # x)

\* the sockets a running broadcast still refers to: a new connection is a new socket,
\* so their names are not given to a new connection before the broadcast returns
BroadcastHolds ==
    IF bcast.pc = "idle" THEN {}
    ELSE bcast.registered \cup {bcast.dead[k] : k \in DOMAIN bcast.dead} \cup {bcast.ws}

\* an await between the append and the snapshot: the snapshot is not handed to the
\* socket in the step that lists it
DashConnect_SnapshotLater(o) ==
    /\ obs_pc[o] = "closed"
    /\ o \notin BroadcastHolds
    /\ dashboard_clients' = Append(dashboard_clients, o)
    /\ obs_pc' = [obs_pc EXCEPT ![o] = "snapshot"]
    /\ UNCHANGED <<attack_running, current_stats, pc, loc, events, event, db_runs, db_txns, obs_recv, extVars>>

\* accept returns; append, get_stats and the call of send_text follow with no suspension
\* between them: send_text hands the snapshot frame to the socket before it first
\* suspends, and the frames of one socket leave in the order of the calls
DashConnect(o) ==
    /\ obs_pc[o] = "closed"
    /\ o \notin BroadcastHolds
    /\ dashboard_clients' = Append(dashboard_clients, o)
    /\ obs_recv' = [obs_recv EXCEPT ![o] = <<"snapshot">>]
    /\ obs_pc' = [obs_pc EXCEPT ![o] = "snapshot"]
    /\ UNCHANGED <<attack_running, current_stats, pc, loc, events, event, db_runs, db_txns, extVars>>

\* the send of the snapshot completes: the handler enters its receive loop
DashSnapshotSent(o) ==
    /\ obs_pc[o] = "snapshot"
    /\ obs_pc' = [obs_pc EXCEPT ![o] = "listening"]
    /\ UNCHANGED <<attack_running, current_stats, pc, loc, events, event, db_runs, db_txns, dashboard_clients, obs_recv, extVars>>

\* the send of the snapshot raises: the handler ends, the socket stays listed
DashSnapshotFail(o) ==
    /\ obs_pc[o] = "snapshot"
    /\ obs_pc' = [obs_pc EXCEPT ![o] = "dead"]
    /\ UNCHANGED <<attack_running, current_stats, pc, loc, events, event, db_runs, db_txns, dashboard_clients, obs_recv, extVars>>

DashDisconnect(o) ==
    /\ obs_pc[o] = "listening"
    /\ dashboard_clients' = Remove(dashboard_clients, o)
    /\ obs_pc' = [obs_pc EXCEPT ![o] = "closed"]
    /\ obs_recv' = [obs_recv EXCEPT ![o] = <<>>]
    /\ UNCHANGED <<attack_running, current_stats, pc, loc, events, event, db_runs, db_txns, extVars>>

\* ---- broadcast ---------------------------------------------------------------------
BroadcastEvents == {"transaction", "stats"}

\* an observer whose send may stay pending for ever (it stopped reading its socket)
SlowObservers == {"obs2"}

\* the list iterator: the element at its index if there is one, else the loop is over
\* and the sockets in dead are removed before broadcast returns
BroadcastAdvance(b) ==
    IF b.next < Len(dashboard_clients)
    THEN /\ bcast' = [b EXCEPT !.pc = "sending", !.ws = dashboard_clients[b.next + 1],
                               !.next = @ + 1]
         /\ UNCHANGED dashboard_clients
    ELSE /\ bcast' = [b EXCEPT !.pc = "returned", !.ws = "none"]
         /\ dashboard_clients' =
                SelectSeq(dashboard_clients,
                          LAMBDA y : \A k \in DOMAIN b.dead : b.dead[k] # y)

BroadcastCall ==
    /\ bcast.pc = "idle"
    /\ bcast.calls < MaxBroadcasts
    /\ \E ev \in BroadcastEvents :
         BroadcastAdvance([bcast EXCEPT !.event = ev, !.calls = @ + 1,
                                        !.registered = {dashboard_clients[k] :
                                                           k \in DOMAIN dashboard_clients}])
    /\ UNCHANGED <<attackVars, obs_pc, obs_recv, statsVars, genVars, fillVars, persistVars>>

\* await ws.send_text(msg) completes
BroadcastSendOk ==
    /\ bcast.pc = "sending"
    /\ obs_pc[bcast.ws] \in {"snapshot", "listening"}
    /\ obs_recv' = [obs_recv EXCEPT ![bcast.ws] = Append(@, bcast.event)]
    /\ BroadcastAdvance(bcast)
    /\ UNCHANGED <<attackVars, obs_pc, statsVars, genVars, fillVars, persistVars>>

\* await ws.send_text(msg) raises: except Exception, dead.append(ws)
BroadcastSendFail ==
    /\ bcast.pc = "sending"
    /\ BroadcastAdvance([bcast EXCEPT !.dead = Append(@, bcast.ws)])
    /\ UNCHANGED <<attackVars, obs_pc, obs_recv, statsVars, genVars, fillVars, persistVars>>

\* the caller goes on
BroadcastReturned ==
    /\ bcast.pc = "returned"
    /\ bcast' = [NoBroadcast EXCEPT !.calls = bcast.calls]
    /\ UNCHANGED <<attackVars, dashVars, statsVars, genVars, fillVars, persistVars>>

\* the send in progress is to an observer that reads its socket
BroadcastResponsive ==
    /\ bcast.pc = "sending"
    /\ bcast.ws \notin SlowObservers
    /\ (BroadcastSendOk \/ BroadcastSendFail)

BroadcastStep ==
    \/ BroadcastCall \/ BroadcastSendOk \/ BroadcastSendFail \/ BroadcastReturned

\* ---- data_filler -------------------------------------------------------------------
\* FillerConfig: intervals in tenths of a second, fraud_ratio in percent
FillerConfigs ==
    {[min_interval |-> 20, max_interval |-> 50, fraud_ratio |-> 8],
     [min_interval |-> 5, max_interval |-> 10, fraud_ratio |-> 0]}
\* datetime.utcnow()
Times == {1, 2}
\* the suspension points of _filler_loop; the task runs while it is at one
LoopPcs == {"created", "f_score", "f_explain", "f_commit", "f_committed", "f_failed", "f_sleep"}
LoopAt(p) == filler_loop.pc = p
LoopGoto(p) == filler_loop' = [filler_loop EXCEPT !.pc = p]

\* StartFillerAccepted, without the guard on is_running
StartFillerAccepted_NoGuard ==
    /\ filler_ret.op = "none"
    /\ filler_loop.task < MaxStarts
    /\ \E cfg \in FillerConfigs, now \in Times :
          filler_stats' = [is_running |-> TRUE, total_inserted |-> 0,
                           started_at |-> now, last_txn_at |-> NoTime,
                           interval_range |-> <<cfg.min_interval, cfg.max_interval>>,
                           fraud_ratio |-> cfg.fraud_ratio]
    /\ filler_task' = filler_loop.task + 1
    /\ filler_loop' = [task |-> filler_loop.task + 1, pc |-> "created", txn_counter |-> 0]
    /\ filler_rows' = 0
    /\ filler_ret' = [op |-> "start", value |-> TRUE]
    /\ UNCHANGED <<attackVars, dashVars, statsVars, genVars, bcastVars, persistVars>>

\* start_filling: start_filler took the guard's other branch
StartFillerAccepted ==
    /\ filler_ret.op = "none"
    /\ ~filler_stats.is_running
    /\ filler_loop.task < MaxStarts
    /\ \E cfg \in FillerConfigs, now \in Times :
          filler_stats' = [is_running |-> TRUE, total_inserted |-> 0,
                           started_at |-> now, last_txn_at |-> NoTime,
                           interval_range |-> <<cfg.min_interval, cfg.max_interval>>,
                           fraud_ratio |-> cfg.fraud_ratio]
    /\ filler_task' = filler_loop.task + 1
    /\ filler_loop' = [task |-> filler_loop.task + 1, pc |-> "created", txn_counter |-> 0]
    /\ filler_rows' = 0
    /\ filler_ret' = [op |-> "start", value |-> TRUE]
    /\ UNCHANGED <<attackVars, dashVars, statsVars, genVars, bcastVars, persistVars>>

\* StartFillerRejected, with the counters reset ahead of the guard
StartFillerRejected_Resets ==
    /\ filler_ret.op = "none"
    /\ filler_stats.is_running
    /\ filler_stats' = [filler_stats EXCEPT !.total_inserted = 0, !.last_txn_at = NoTime]
    /\ filler_ret' = [op |-> "start", value |-> FALSE]
    /\ UNCHANGED <<filler_task, filler_loop, filler_rows>>
    /\ UNCHANGED <<attackVars, dashVars, statsVars, genVars, bcastVars, persistVars>>

\* start_filling: start_filler returned False
StartFillerRejected ==
    /\ filler_ret.op = "none"
    /\ filler_stats.is_running
    /\ filler_ret' = [op |-> "start", value |-> FALSE]
    /\ UNCHANGED <<filler_task, filler_stats, filler_loop, filler_rows>>
    /\ UNCHANGED <<attackVars, dashVars, statsVars, genVars, bcastVars, persistVars>>

\* StopFillerAccepted, without the cancel of the task
StopFillerAccepted_NoCancel ==
    /\ filler_ret.op = "none"
    /\ filler_stats.is_running /\ filler_task # NoTask
    /\ filler_task' = NoTask
    /\ filler_stats' = [filler_stats EXCEPT !.is_running = FALSE]
    /\ filler_ret' = [op |-> "stop", value |-> TRUE]
    /\ UNCHANGED <<filler_loop, filler_rows>>
    /\ UNCHANGED <<attackVars, dashVars, statsVars, genVars, bcastVars, persistVars>>

\* stop_filling: the task is cancelled, it never runs its own code again
StopFillerAccepted ==
    /\ filler_ret.op = "none"
    /\ filler_stats.is_running /\ filler_task # NoTask
    /\ LoopGoto("cancelled")
    /\ filler_task' = NoTask
    /\ filler_stats' = [filler_stats EXCEPT !.is_running = FALSE]
    /\ filler_ret' = [op |-> "stop", value |-> TRUE]
    /\ UNCHANGED filler_rows
    /\ UNCHANGED <<attackVars, dashVars, statsVars, genVars, bcastVars, persistVars>>

\* stop_filling: stop_filler returned False
StopFillerRejected ==
    /\ filler_ret.op = "none"
    /\ ~filler_stats.is_running \/ filler_task = NoTask
    /\ filler_ret' = [op |-> "stop", value |-> FALSE]
    /\ UNCHANGED <<filler_task, filler_stats, filler_loop, filler_rows>>
    /\ UNCHANGED <<attackVars, dashVars, statsVars, genVars, bcastVars, persistVars>>

\* the response of start_filling or stop_filling is sent
FillerResponded ==
    /\ filler_ret.op # "none"
    /\ filler_ret' = NoResponse
    /\ UNCHANGED <<filler_task, filler_stats, filler_loop, filler_rows>>
    /\ UNCHANGED <<attackVars, dashVars, statsVars, genVars, bcastVars, persistVars>>

\* ---- _filler_loop: one action per segment between two suspension points ------------
LoopOnly == UNCHANGED <<filler_task, filler_stats, filler_rows, filler_ret,
                        attackVars, dashVars, statsVars, genVars, bcastVars, persistVars>>

\* the task starts: txn_counter += 1, _generate_single_txn, score_transactions awaited
LoopBegin ==
    /\ LoopAt("created")
    /\ filler_loop' = [filler_loop EXCEPT !.pc = "f_score", !.txn_counter = @ + 1]
    /\ LoopOnly

\* _score_single_txn: the verdict of the service
FillScoreOk ==
    /\ LoopAt("f_score")
    /\ \E is_flagged \in BOOLEAN : LoopGoto(IF is_flagged THEN "f_explain" ELSE "f_commit")
    /\ LoopOnly

\* _score_single_txn: the fallback, flagged when score >= 0.5
FillScoreFail ==
    /\ LoopAt("f_score")
    /\ \E score \in FallbackScores :
          LoopGoto(IF score >= DEFAULT_THRESHOLD THEN "f_explain" ELSE "f_commit")
    /\ LoopOnly

FillExplainOk ==
    /\ LoopAt("f_explain")
    /\ LoopGoto("f_commit")
    /\ LoopOnly

FillExplainFail ==
    /\ LoopAt("f_explain")
    /\ LoopGoto("f_commit")
    /\ LoopOnly

\* await db.commit() has succeeded: the row is stored; the task is resumed
\* through the exit of the session block, which awaits the session's close
FillCommitOk ==
    /\ LoopAt("f_commit")
    /\ filler_rows' = filler_rows + 1
    /\ LoopGoto("f_committed")
    /\ UNCHANGED <<filler_task, filler_stats, filler_ret,
                   attackVars, dashVars, statsVars, genVars, bcastVars, persistVars>>

\* await db.commit() raised: the exception leaves through the session block
FillCommitFail_EndsLoop ==
    /\ LoopAt("f_commit")
    /\ LoopGoto("ended")
    /\ LoopOnly

FillCommitFail ==
    /\ LoopAt("f_commit")
    /\ LoopGoto("f_failed")
    /\ LoopOnly

\* FillCounted, with the insert counted in the run's statistics as well
FillCounted_SharedStats ==
    /\ LoopAt("f_committed")
    /\ \E now \in Times :
          filler_stats' = [filler_stats EXCEPT !.total_inserted = @ + 1,
                                               !.last_txn_at = now]
    /\ current_stats' = [current_stats EXCEPT !.total = @ + 1]
    /\ LoopGoto("f_sleep")
    /\ UNCHANGED <<filler_task, filler_rows, filler_ret,
                   attack_running, pc, loc, events, event, db_runs, db_txns,
                   dashVars, statsVars, genVars, bcastVars, persistVars>>

\* the session block is left: total_inserted += 1, last_txn_at, sleep awaited
FillCounted ==
    /\ LoopAt("f_committed")
    /\ \E now \in Times :
          filler_stats' = [filler_stats EXCEPT !.total_inserted = @ + 1,
                                               !.last_txn_at = now]
    /\ LoopGoto("f_sleep")
    /\ UNCHANGED <<filler_task, filler_rows, filler_ret,
                   attackVars, dashVars, statsVars, genVars, bcastVars, persistVars>>

\* except Exception: logger.error; sleep awaited
FillErrorLogged ==
    /\ LoopAt("f_failed")
    /\ LoopGoto("f_sleep")
    /\ LoopOnly

\* asyncio.sleep(delay) is over: the next iteration
FillSleepDone ==
    /\ LoopAt("f_sleep")
    /\ filler_loop.txn_counter < MaxIter
    /\ filler_loop' = [filler_loop EXCEPT !.pc = "f_score", !.txn_counter = @ + 1]
    /\ LoopOnly

FillerLoopStep ==
    \/ LoopBegin
    \/ FillScoreOk \/ FillScoreFail
    \/ FillExplainOk \/ FillExplainFail
    \/ FillCommitOk \/ FillCommitFail
    \/ FillCounted \/ FillErrorLogged
    \/ FillSleepDone

FillNext ==
    \/ StartFillerAccepted \/ StartFillerRejected
    \/ StopFillerAccepted \/ StopFillerRejected
    \/ FillerResponded
    \/ FillerLoopStep

\* the filler and its control entry points
SpecFill == Init /\ [][FillNext]_vars

\* the event loop runs a task whose await is over; the scorer's calls, the
\* commit and the sleep all return or raise
FairSpecFill == SpecFill /\ WF_vars(FillerLoopStep)

\* ---- the stats update on its own ---------------------------------------------------
\* stats is a StatsSnapshot under any sequence of updates: one more transaction
\* of any kind with any verdict
StatsUpdate ==
    /\ stats.total < MaxUpdates
    /\ \E txn \in TxnKinds, is_flagged \in BOOLEAN :
          stats' = UpdateStats(stats, txn.is_fraud, txn.fraud_type, is_flagged)
    /\ UNCHANGED <<attackVars, dashVars, genVars, fillVars, bcastVars, persistVars>>

\* current_stats = StatsSnapshot()
StatsReset ==
    /\ stats.total > 0
    /\ stats' = StatsSnapshot
    /\ UNCHANGED <<attackVars, dashVars, genVars, fillVars, bcastVars, persistVars>>

StatsNext == StatsUpdate \/ StatsReset

SpecStats == Init /\ [][StatsNext]_vars

\* ---- generate_attack_batch ---------------------------------------------------------
\* the configurations of a run: total, and fraud_pct in percent
Totals == {10, 100}
FraudPcts == {1, 10, 50}
\* the number of transactions one call of a generator returns
VelocitySizes == 8..12
CardTestingSizes == 5..8
CollusionSizes == 6..15
GeoSizes == {2}
AmountSizes == {1}

\* how often generate_attack_batch calls each fraud generator, in its order
GenCalls(g, fpt) ==
    CASE g = "velocity" -> Max(fpt \div VELOCITY_DIV, 1)
      [] g = "card_testing" -> Max(fpt \div CARD_TESTING_DIV, 1)
      [] g = "collusion" -> Max(fpt \div COLLUSION_DIV, 1)
      [] g = "geo" -> Max(fpt \div GEO_DIV, 1)
      [] g = "amount" -> Max(fpt, 1)
GenSizes(g) ==
    CASE g = "velocity" -> VelocitySizes
      [] g = "card_testing" -> CardTestingSizes
      [] g = "collusion" -> CollusionSizes
      [] g = "geo" -> GeoSizes
      [] g = "amount" -> AmountSizes
NextGen(g) ==
    CASE g = "velocity" -> "card_testing"
      [] g = "card_testing" -> "collusion"
      [] g = "collusion" -> "geo"
      [] g = "geo" -> "amount"
      [] g = "amount" -> "shuffle"

\* n_fraud_target, n_normal, the normal transactions, fpt
GenerateStart ==
    /\ gen.pc = "idle"
    /\ \E total \in Totals, fraud_pct \in FraudPcts :
          LET n_fraud_target == Max((total * fraud_pct) \div 100, MIN_FRAUD_TARGET)
              n_normal == total - n_fraud_target
              fpt == Max(n_fraud_target \div FRAUD_TYPES, MIN_PER_TYPE)
          IN  gen' = [pc |-> "velocity", total |-> total, fraud_pct |-> fraud_pct,
                      n_normal |-> n_normal, fpt |-> fpt,
                      calls |-> GenCalls("velocity", fpt),
                      n_txns |-> n_normal, n_fraud |-> 0]
    /\ UNCHANGED <<batches, attackVars, dashVars, statsVars, fillVars, bcastVars, persistVars>>

\* one call of the current fraud generator: all_txns.extend(t)
GenerateFraud ==
    /\ gen.pc \in {"velocity", "card_testing", "collusion", "geo", "amount"}
    /\ gen.calls > 0
    /\ \E n \in GenSizes(gen.pc) :
          gen' = [gen EXCEPT !.calls = @ - 1, !.n_txns = @ + n, !.n_fraud = @ + n]
    /\ UNCHANGED <<batches, attackVars, dashVars, statsVars, fillVars, bcastVars, persistVars>>

\* the loop of the current generator is over: the next one, or shuffle and return
GenerateNext ==
    /\ gen.pc \in {"velocity", "card_testing", "collusion", "geo", "amount"}
    /\ gen.calls = 0
    /\ LET g == NextGen(gen.pc)
       IN  gen' = [gen EXCEPT !.pc = IF g = "shuffle" THEN "returned" ELSE g,
                              !.calls = IF g = "shuffle" THEN 0 ELSE GenCalls(g, gen.fpt)]
    /\ UNCHANGED <<batches, attackVars, dashVars, statsVars, fillVars, bcastVars, persistVars>>

GenNext == GenerateStart \/ GenerateFraud \/ GenerateNext

\* generate_attack_batch on its own, for every configuration
SpecGen == Init /\ [][GenNext]_vars

\* ---- generate_attack_batch: the generated values ---------------------------------------
Seeds == {7, 42}
\* totals whose batches stay short: with and without normal transactions
BatchTotals == {10, 20}
\* secrets.token_hex(2): a few of its 65536 values
Prefixes == {"00a1", "beef", "ffff"}

\* np.random.default_rng(seed): the k-th number drawn from the generator is a
\* function of the seed and of k alone
Mix(seed, k) == ((seed + 3) * 7919 + (k + 1) * 104729 + seed * k * 31) % 65521
\* rng.integers(lo, hi), and rng.choice of a list of hi - lo elements
Draw(seed, k, lo, hi) == lo + (Mix(seed, k) % (hi - lo))

\* one generated transaction; country, currency, amount_foreign and attack_detail
\* are computed from the fields kept here
Txn(prefix, n, ts, payer, issuer, merchant, city, amount, is_fraud, fraud_type) ==
    [txn_id |-> <<"TXN", prefix, n>>, timestamp |-> ts, payer |-> payer,
     issuer |-> issuer, merchant |-> merchant, city |-> city, amount_idr |-> amount,
     is_fraud |-> is_fraud, fraud_type |-> fraud_type]

\* each generator returns its transactions and the position of the rng after them
gen_normal(seed, k, txn_id, run_id_prefix) ==
    [txns |-> <<Txn(run_id_prefix, txn_id,
                    Draw(seed, k + 2, 0, 3600),
                    <<"tourist", Draw(seed, k + 3, 0, 5000)>>,
                    Draw(seed, k, 0, N_ISSUERS),
                    Draw(seed, k + 4, 0, N_MERCHANTS),
                    Draw(seed, k + 5, 0, N_CITIES),
                    Draw(seed, k + 1, 50000, 2000001),
                    FALSE, "None")>>,
     k |-> k + 6]

gen_velocity(seed, k, txn_id_start, run_id_prefix) ==
    LET n == Draw(seed, k + 2, 8, 13)
    IN  [txns |-> [i \in 1..n |->
                      LET d == k + 3 + 4 * (i - 1)
                      IN  Txn(run_id_prefix, txn_id_start + i - 1,
                              Draw(seed, d + 1, 0, 180),
                              <<"attacker_vel", Draw(seed, k + 1, 0, 1000)>>,
                              Draw(seed, k, 0, N_ISSUERS),
                              Draw(seed, d + 2, 0, N_MERCHANTS),
                              Draw(seed, d + 3, 0, N_CITIES),
                              Draw(seed, d, 100000, 500000),
                              TRUE, "velocity_attack")],
         k |-> k + 3 + 4 * n]

\* gen_card_testing, with the final purchase a tenth of what it is
gen_card_testing_SmallFinal(seed, k, txn_id_start, run_id_prefix) ==
    LET n_probes == Draw(seed, k + 2, 4, 8)
    IN  [txns |-> [i \in 1..(n_probes + 1) |->
                      LET d == k + 3 + 4 * (i - 1)
                      IN  Txn(run_id_prefix, txn_id_start + i - 1,
                              IF i <= n_probes THEN Draw(seed, d + 1, 0, 600)
                                               ELSE Draw(seed, d + 1, 600, 900),
                              <<"attacker_ct", Draw(seed, k + 1, 0, 1000)>>,
                              Draw(seed, k, 0, N_ISSUERS),
                              Draw(seed, d + 2, 0, N_MERCHANTS),
                              Draw(seed, d + 3, 0, N_CITIES),
                              IF i <= n_probes THEN Draw(seed, d, 10000, 35000)
                                               ELSE Draw(seed, d, 300000, 1000000),
                              TRUE, "card_testing")],
         k |-> k + 3 + 4 * (n_probes + 1)]

gen_card_testing(seed, k, txn_id_start, run_id_prefix) ==
    LET n_probes == Draw(seed, k + 2, 4, 8)
    IN  [txns |-> [i \in 1..(n_probes + 1) |->
                      LET d == k + 3 + 4 * (i - 1)
                      IN  Txn(run_id_prefix, txn_id_start + i - 1,
                              IF i <= n_probes THEN Draw(seed, d + 1, 0, 600)
                                               ELSE Draw(seed, d + 1, 600, 900),
                              <<"attacker_ct", Draw(seed, k + 1, 0, 1000)>>,
                              Draw(seed, k, 0, N_ISSUERS),
                              Draw(seed, d + 2, 0, N_MERCHANTS),
                              Draw(seed, d + 3, 0, N_CITIES),
                              IF i <= n_probes THEN Draw(seed, d, 10000, 35000)
                                               ELSE Draw(seed, d, 3000000, 10000000),
                              TRUE, "card_testing")],
         k |-> k + 3 + 4 * (n_probes + 1)]

\* the ring's members from the m-th on: each draws its payer, then 2 or 3 transactions
RECURSIVE CollusionMembers(_, _, _, _, _, _, _)
CollusionMembers(seed, acc, m, n_members, txn_id_start, run_id_prefix, issuer_target) ==
    IF m > n_members THEN acc
    ELSE LET k == acc.k
             n == Draw(seed, k + 1, 2, 4)
             t == [i \in 1..n |->
                     LET d == k + 2 + 4 * (i - 1)
                     IN  Txn(run_id_prefix, txn_id_start + Len(acc.txns) + i - 1,
                             60 * Draw(seed, d + 1, 0, 60) + Draw(seed, d + 2, 0, 60),
                             <<"ring", Draw(seed, k, 0, 1000), m - 1>>,
                             issuer_target[1], issuer_target[2],
                             Draw(seed, d + 3, 0, N_CITIES),
                             Draw(seed, d, 500000, 5000000),
                             TRUE, "collusion_ring")]
         IN  CollusionMembers(seed, [txns |-> acc.txns \o t, k |-> k + 2 + 4 * n],
                              m + 1, n_members, txn_id_start, run_id_prefix, issuer_target)

gen_collusion(seed, k, txn_id_start, run_id_prefix) ==
    CollusionMembers(seed, [txns |-> <<>>, k |-> k + 3], 1, Draw(seed, k + 2, 3, 6),
                     txn_id_start, run_id_prefix,
                     <<Draw(seed, k, 0, N_ISSUERS), Draw(seed, k + 1, 0, N_MERCHANTS)>>)

gen_geo(seed, k, txn_id_start, run_id_prefix) ==
    LET payer == <<"attacker_geo", Draw(seed, k + 1, 0, 1000)>>
        city1 == Draw(seed, k + 2, 0, N_CITIES)
        city2 == (city1 + Draw(seed, k + 3, 1, N_CITIES)) % N_CITIES
    IN  [txns |-> <<Txn(run_id_prefix, txn_id_start, 0, payer,
                        Draw(seed, k, 0, N_ISSUERS), Draw(seed, k + 7, 0, N_MERCHANTS),
                        city1, Draw(seed, k + 4, 200000, 1500000), TRUE, "geo_anomaly"),
                    Txn(run_id_prefix, txn_id_start + 1, 60 * Draw(seed, k + 6, 5, 15), payer,
                        Draw(seed, k, 0, N_ISSUERS), Draw(seed, k + 8, 0, N_MERCHANTS),
                        city2, Draw(seed, k + 5, 200000, 1500000), TRUE, "geo_anomaly")>>,
         k |-> k + 9]

\* gen_amount, with the run prefix in the payer
gen_amount_PrefixInPayer(seed, k, txn_id_start, run_id_prefix) ==
    [txns |-> <<Txn(run_id_prefix, txn_id_start,
                    <<Draw(seed, k + 3, 0, 7), Draw(seed, k + 4, 0, 60)>>,
                    <<"attacker_amt", run_id_prefix>>,
                    Draw(seed, k, 0, N_ISSUERS),
                    Draw(seed, k + 5, 0, N_MERCHANTS),
                    Draw(seed, k + 6, 0, N_CITIES),
                    Draw(seed, k + 2, 5000000, 10000000),
                    TRUE, "amount_anomaly")>>,
     k |-> k + 7]

gen_amount(seed, k, txn_id_start, run_id_prefix) ==
    [txns |-> <<Txn(run_id_prefix, txn_id_start,
                    <<Draw(seed, k + 3, 0, 7), Draw(seed, k + 4, 0, 60)>>,
                    <<"attacker_amt", Draw(seed, k + 1, 0, 1000)>>,
                    Draw(seed, k, 0, N_ISSUERS),
                    Draw(seed, k + 5, 0, N_MERCHANTS),
                    Draw(seed, k + 6, 0, N_CITIES),
                    Draw(seed, k + 2, 5000000, 10000000),
                    TRUE, "amount_anomaly")>>,
     k |-> k + 7]

GenCall(g, seed, k, txn_id, run_id_prefix) ==
    CASE g = "normal" -> gen_normal(seed, k, txn_id, run_id_prefix)
      [] g = "velocity" -> gen_velocity(seed, k, txn_id, run_id_prefix)
      [] g = "card_testing" -> gen_card_testing(seed, k, txn_id, run_id_prefix)
      [] g = "collusion" -> gen_collusion(seed, k, txn_id, run_id_prefix)
      [] g = "geo" -> gen_geo(seed, k, txn_id, run_id_prefix)
      [] g = "amount" -> gen_amount(seed, k, txn_id, run_id_prefix)

\* for _ in range(calls): all_txns.extend(t); txn_id += len(t).  txn_id starts at 1
\* and grows by the number of transactions appended, so it is len(all_txns) + 1
RECURSIVE Extend(_, _, _, _, _)
Extend(acc, g, calls, seed, run_id_prefix) ==
    IF calls = 0 THEN acc
    ELSE LET t == GenCall(g, seed, acc.k, Len(acc.txns) + 1, run_id_prefix)
         IN  Extend([txns |-> acc.txns \o t.txns, k |-> t.k], g, calls - 1,
                    seed, run_id_prefix)

\* rng.shuffle: for i from the last position down, exchange it with a drawn position
\* not after it
RECURSIVE Shuffle(_, _, _, _)
Shuffle(x, i, seed, k) ==
    IF i < 2 THEN x
    ELSE LET j == Draw(seed, k, 1, i + 1)
         IN  Shuffle([x EXCEPT ![i] = x[j], ![j] = x[i]], i - 1, seed, k + 1)

generate_attack_batch(total, fraud_pct, seed, run_id_prefix) ==
    LET n_fraud_target == Max((total * fraud_pct) \div 100, MIN_FRAUD_TARGET)
        n_normal == total - n_fraud_target
        fpt == Max(n_fraud_target \div FRAUD_TYPES, MIN_PER_TYPE)
        a0 == Extend([txns |-> <<>>, k |-> 0], "normal", n_normal, seed, run_id_prefix)
        a1 == Extend(a0, "velocity", GenCalls("velocity", fpt), seed, run_id_prefix)
        a2 == Extend(a1, "card_testing", GenCalls("card_testing", fpt), seed, run_id_prefix)
        a3 == Extend(a2, "collusion", GenCalls("collusion", fpt), seed, run_id_prefix)
        a4 == Extend(a3, "geo", GenCalls("geo", fpt), seed, run_id_prefix)
        a5 == Extend(a4, "amount", GenCalls("amount", fpt), seed, run_id_prefix)
    IN  Shuffle(a5.txns, Len(a5.txns), seed, a5.k)

\* the caller fixes total, fraud_pct and seed
ChooseArgs ==
    /\ batches = NoCalls
    /\ \E total \in BatchTotals, fraud_pct \in FraudPcts, seed \in Seeds :
          batches' = [NoCalls EXCEPT !.args =
                         [total |-> total, fraud_pct |-> fraud_pct, seed |-> seed]]
    /\ UNCHANGED <<gen, attackVars, dashVars, statsVars, fillVars, bcastVars, persistVars>>

\* one more call with these arguments; it draws its own run prefix
CallGenerate ==
    /\ batches.args.total # 0
    /\ Len(batches.all_txns) < MaxCalls
    /\ \E run_id_prefix \in Prefixes :
          batches' = [batches EXCEPT
                         !.prefix = Append(@, run_id_prefix),
                         !.all_txns = Append(@, generate_attack_batch(
                                                   batches.args.total, batches.args.fraud_pct,
                                                   batches.args.seed, run_id_prefix))]
    /\ UNCHANGED <<gen, attackVars, dashVars, statsVars, fillVars, bcastVars, persistVars>>

BatchesNext == ChooseArgs \/ CallGenerate

\* repeated calls of generate_attack_batch with the same arguments
SpecBatches == Init /\ [][BatchesNext]_vars

\* ---- run_attack: the rows of a long run ------------------------------------------------
\* batches long enough for the second batch commit
LongBatches == COMMIT_EVERY..MaxLongBatch

\* db.add(attack_run), commit and refresh went through; all_txns is generated
PersistStart ==
    /\ persist.pc = "idle"
    /\ \E n \in LongBatches : persist' = [NoSession EXCEPT !.pc = "a_score", !.n = n]
    /\ UNCHANGED <<attackVars, dashVars, statsVars, genVars, fillVars, bcastVars>>

\* the transaction is scored: db.add(db_txn), and `if i % 50 == 0: await db.commit()`
PersistAdd ==
    /\ persist.pc = "a_score"
    /\ persist' = [persist EXCEPT
                      !.pending = @ + 1,
                      !.pc = IF persist.i % COMMIT_EVERY = 0
                             THEN "a_batch_commit" ELSE "a_sleep"]
    /\ UNCHANGED <<attackVars, dashVars, statsVars, genVars, fillVars, bcastVars>>

PersistCommitOk ==
    /\ persist.pc \in {"a_batch_commit", "a_final_commit"}
    /\ persist' = [persist EXCEPT
                      !.committed = @ + persist.pending,
                      !.pending = 0,
                      !.pc = IF persist.pc = "a_batch_commit" THEN "a_sleep" ELSE "done"]
    /\ UNCHANGED <<attackVars, dashVars, statsVars, genVars, fillVars, bcastVars>>

\* the commit raises: the session's pending rows are gone
PersistCommitFail ==
    /\ persist.pc \in {"a_batch_commit", "a_final_commit"}
    /\ persist' = [persist EXCEPT !.lost = persist.pending, !.pending = 0,
                                   !.pc = "failed"]
    /\ UNCHANGED <<attackVars, dashVars, statsVars, genVars, fillVars, bcastVars>>

\* asyncio.sleep(delay) is over: the next transaction, or the "Final DB commit"
PersistSleepDone ==
    /\ persist.pc = "a_sleep"
    /\ IF persist.i + 1 < persist.n
       THEN persist' = [persist EXCEPT !.i = @ + 1, !.pc = "a_score"]
       ELSE persist' = [persist EXCEPT !.pc = "a_final_commit"]
    /\ UNCHANGED <<attackVars, dashVars, statsVars, genVars, fillVars, bcastVars>>

\* the run is over, the next request gets a new session
PersistClosed ==
    /\ persist.pc \in {"done", "failed"}
    /\ persist' = NoSession
    /\ UNCHANGED <<attackVars, dashVars, statsVars, genVars, fillVars, bcastVars>>

PersistNext ==
    \/ PersistStart \/ PersistAdd
    \/ PersistCommitOk \/ PersistCommitFail
    \/ PersistSleepDone \/ PersistClosed

\* runs of 50 transactions and more, by their rows
SpecPersist == Init /\ [][PersistNext]_vars

\* ---- the specification ---------------------------------------------------------------
ClientStep(c) ==
    \/ WsConnect(c) \/ WsDisconnectIdle(c)
    \/ StartRejected(c) \/ StartAccepted(c) \/ ErrorDelivered(c)
    \/ HeaderCommitOk(c) \/ HeaderCommitFail(c)
    \/ HeaderRefreshOk(c) \/ HeaderRefreshFail(c)
    \/ ConnectLogDelivered(c) \/ HealthOk(c) \/ HealthFail(c) \/ WarnLogDelivered(c)
    \/ InfoOk(c) \/ InfoFail(c) \/ ModeLogDelivered(c)
    \/ ModeCommitOk(c) \/ ModeCommitFail(c)
    \/ GenLogDelivered(c) \/ ReadyLogDelivered(c) \/ AttackStartDelivered(c)
    \/ ScoreOk(c) \/ ScoreFail(c) \/ ExplainOk(c) \/ ExplainFail(c)
    \/ BatchCommitOk(c) \/ BatchCommitFail(c)
    \/ TxnDelivered(c) \/ StatsDelivered(c) \/ SleepDone(c)
    \/ FinalCommitOk(c) \/ FinalCommitFail(c)
    \/ FinalizeCommitOk(c) \/ FinalizeCommitFail(c)
    \/ DoneLogDelivered(c) \/ AttackEndDelivered(c)
    \/ FailCommitOk(c) \/ FailCommitFail(c)
    \/ WsDisconnect(c) \/ WsDisconnectOnError(c) \/ Finalize(c)

ObserverStep(o) ==
    \/ DashConnect(o) \/ DashSnapshotSent(o) \/ DashSnapshotFail(o) \/ DashDisconnect(o)

\* the orchestrator and its two entry points
Next == \E c \in Clients : ClientStep(c)

Spec == Init /\ [][Next]_vars

\* the same, with the /ws/dashboard observers coming and going
DashNext ==
    \/ Next
    \/ \E o \in Observers : ObserverStep(o)

SpecDash == Init /\ [][DashNext]_vars

\* the same as Spec, with requests whose config is out of range
ConfigNext ==
    \/ Next
    \/ \E c \in Clients : StartInvalid(c)

SpecConfig == Init /\ [][ConfigNext]_vars

\* the runs of a /ws/attack client and the filler on the same event loop, in every
\* interleaving of their steps; the batches and the filler's restarts are kept small
JointBound ==
    /\ \A c \in Clients : Len(loc[c].all_txns) <= MaxJointBatch
    /\ filler_loop.task <= MaxJointStarts

JointNext ==
    /\ (\E c \in WsClients : ClientStep(c)) \/ FillNext
    /\ JointBound'

SpecJoint == Init /\ [][JointNext]_vars

\* one run after the other through the REST entry point
SuccessiveStep(c) ==
    \/ StartRejected(c) \/ StartAcceptedUpTo(c, MaxSuccessiveRuns) \/ ErrorDelivered(c)
    \/ HeaderCommitOk(c) \/ HeaderCommitFail(c)
    \/ HeaderRefreshOk(c) \/ HeaderRefreshFail(c)
    \/ ConnectLogDelivered(c) \/ HealthOk(c) \/ HealthFail(c) \/ WarnLogDelivered(c)
    \/ InfoOk(c) \/ InfoFail(c) \/ ModeLogDelivered(c)
    \/ ModeCommitOk(c) \/ ModeCommitFail(c)
    \/ GenLogDelivered(c) \/ ReadyLogDelivered(c) \/ AttackStartDelivered(c)
    \/ ScoreOk(c) \/ ScoreFail(c) \/ ExplainOk(c) \/ ExplainFail(c)
    \/ BatchCommitOk(c) \/ BatchCommitFail(c)
    \/ TxnDelivered(c) \/ StatsDelivered(c) \/ SleepDone(c)
    \/ FinalCommitOk(c) \/ FinalCommitFail(c)
    \/ FinalizeCommitOk(c) \/ FinalizeCommitFail(c)
    \/ DoneLogDelivered(c) \/ AttackEndDelivered(c)
    \/ FailCommitOk(c) \/ FailCommitFail(c)

SuccessiveNext == \E c \in RestClients : SuccessiveStep(c)

SpecSuccessive == Init /\ [][SuccessiveNext]_vars

\* broadcast called while the /ws/dashboard observers come and go
BroadcastNext ==
    \/ BroadcastStep
    \/ \E o \in Observers : ObserverStep(o)

SpecBroadcast == Init /\ [][BroadcastNext]_vars

\* the event loop resumes a send that can complete; nothing makes a slow observer's
\* send complete
FairSpecBroadcast == SpecBroadcast /\ WF_vars(BroadcastResponsive)

\* ---- the properties --------------------------------------------------------------------
Stored == <<db_runs, db_txns>>

\* C1: run_attack invoked while attack_running is true emits exactly one event,
\* of type error, and then ends: attack_running stays true, current_stats is
\* neither reset nor modified and no RunRecord is created.
C1_RejectedStartChangesNothing ==
    [][\A c \in Clients :
         /\ (pc[c] \in ReadyPcs /\ attack_running /\ pc'[c] \notin ReadyPcs \cup {"closed"})
               => /\ pc'[c] = "y_error"
                  /\ events'[c] = <<"error">>
                  /\ event'[c].type = "error"
                  /\ attack_running'
                  /\ current_stats' = current_stats
                  /\ Stored' = Stored
         /\ (pc[c] = "y_error" /\ pc'[c] # "y_error")
               => /\ pc'[c] \in {"idle", "closed"}
                  /\ events[c] = <<"error">>
                  /\ events'[c] = <<>>
                  /\ attack_running' = attack_running
                  /\ current_stats' = current_stats
                  /\ Stored' = Stored]_vars

\* a start was rejected while the active run had already counted a transaction
C1_Witness ==
    \E c \in Clients :
        /\ pc[c] = "y_error"
        /\ events[c] = <<"error">>
        /\ attack_running
        /\ current_stats.total > 0
        /\ Len(db_runs) = 1

\* C2: for every interleaving of start requests from the REST entry point and
\* the /ws/attack sockets, at most one run_attack invocation is past the guard.
C2_AtMostOneRunPastGuard ==
    Cardinality({c \in Clients : pc[c] \in InRunPcs}) <= 1

\* the socket's run is in its loop when the REST request arrives and is rejected
C2_Witness ==
    \E c \in WsClients, d \in RestClients :
        /\ pc[c] \in {"a_score", "a_explain", "a_batch_commit", "y_txn", "y_stats", "a_sleep"}
        /\ pc[d] = "y_error"

\* C3: after any accepted run, attack_running is false again: whenever no
\* run_attack invocation is past the guard, the flag is down.
C3_FlagReleasedAfterRun ==
    (\A c \in Clients : pc[c] \notin InRunPcs) => ~attack_running

\* C4: wherever run_attack yields or awaits, the statistics satisfy
\* total = tp + fp + tn + fn and total = approved + flagged; so do the
\* snapshots carried by stats_update and attack_end.
Consistent(s) ==
    /\ s.total = s.tp + s.fp + s.tn + s.fn
    /\ s.total = s.approved + s.flagged

C4_StatsConsistent ==
    /\ Consistent(current_stats)
    /\ \A c \in Clients :
          event[c].type \in {"stats_update", "attack_end"} => Consistent(event[c].data)

\* a stats_update after a missed fraud and a flagged transaction
C4_Witness ==
    \E c \in Clients :
        /\ pc[c] = "y_stats"
        /\ event[c].data.total = 2
        /\ event[c].data.fn = 1
        /\ event[c].data.flagged = 1

\* C5: the events delivered for one request are ordered: one attack_start before
\* every transaction and stats_update, one attack_end that is the last event, and
\* a rejected start delivers the single error event and nothing else.
C5_EventOrder ==
    \A c \in Clients :
        LET e == events[c]
        IN  /\ Count(e, "attack_start") <= 1
            /\ Count(e, "attack_end") <= 1
            /\ \A k \in DOMAIN e :
                  /\ e[k] \in {"transaction", "stats_update", "attack_end"}
                        => \E j \in 1..(k - 1) : e[j] = "attack_start"
                  /\ e[k] = "attack_end" => k = Len(e)
                  /\ e[k] = "error" => e = <<"error">>
            /\ pc[c] = "y_attack_end"
                  => /\ e[Len(e)] = "attack_end"
                     /\ Count(e, "attack_start") = 1
            /\ pc[c] = "y_error" => e = <<"error">>
            /\ event[c].type # "none" => e # <<>> /\ e[Len(e)] = event[c].type

\* a run of two transactions delivers its attack_end
C5_Witness ==
    \E c \in Clients :
        /\ pc[c] = "y_attack_end"
        /\ Count(events[c], "transaction") = 2
        /\ Count(events[c], "stats_update") = 2

\* C6: an observer registered on /ws/dashboard while a run is in progress
\* receives every event the run emits, in the order of emission: each step that
\* emits an event hands it to every listening observer.
C6_ObserversReceiveRunEvents ==
    [][\A o \in Observers, c \in Clients :
          (/\ obs_pc[o] = "listening"
           /\ Len(events'[c]) = Len(events[c]) + 1)
             => obs_recv'[o] = Append(obs_recv[o], events'[c][Len(events'[c])])]_vars

\* C7: whatever the health, info, score and explain calls do, no transaction is
\* dropped: the k-th transaction event is for the k-th generated transaction and
\* carries a boolean is_flagged and a risk_score in the range, the loop ends with
\* one event per transaction, only storage makes the run fail, and the run that
\* reports its end is stored as completed.
C7_NoTransactionDropped ==
    \A c \in Clients :
        LET n == Count(events[c], "transaction")
        IN  /\ event[c].type = "transaction"
                  => /\ event[c].data.risk_score \in ScoreRange
                     /\ event[c].data.is_flagged \in BOOLEAN
                     /\ event[c].data.index = n - 1
                     /\ event[c].data.index = loc[c].i
            /\ pc[c] \in {"a_score", "a_explain", "a_batch_commit"} => n = loc[c].i
            /\ pc[c] \in {"y_txn", "y_stats", "a_sleep"} => n = loc[c].i + 1
            /\ pc[c] \in {"a_final_commit", "a_finalize_commit", "y_log_done", "y_attack_end"}
                  => n = Len(loc[c].all_txns)
            /\ pc[c] = "a_fail_commit" => loc[c].failure = "storage"
            /\ pc[c] \in {"y_log_done", "y_attack_end"}
                  => db_runs[loc[c].attack_run.id].status = "completed"

\* the health check failed, the model info was not available, and the run of two
\* transactions still reports its end
C7_Witness ==
    \E c \in Clients :
        /\ pc[c] = "y_attack_end"
        /\ loc[c].mode = "SIMULATION"
        /\ Len(loc[c].all_txns) = 2
        /\ Count(events[c], "log") = 6
        /\ db_txns[loc[c].attack_run.id] = 2

\* C8: an unhandled failure inside the try stores the RunRecord as failed and is
\* propagated to the caller: the handler is left with the record stored as
\* failed and the exception raised.
C8_FailureMarkedAndPropagated ==
    [][\A c \in Clients :
          (pc[c] = "a_fail_commit" /\ pc'[c] # "a_fail_commit")
             => /\ db_runs'[loc[c].attack_run.id].status = "failed"
                /\ pc'[c] = Raised(c)]_vars

\* C9: a run in which a storage write failed ends with its RunRecord stored as
\* failed.
C9_StorageFailureStoredAsFailed ==
    [][\A c \in Clients :
          (loc[c].failure = "storage" /\ pc[c] \in InRunPcs /\ pc'[c] \notin InRunPcs)
             => db_runs'[loc[c].attack_run.id].status \notin {"running", "completed"}]_vars

\* C10: every accepted run reaches a terminal outcome whatever its client does:
\* when the run of a client that went away is over, its RunRecord is completed
\* or failed.
C10_AbandonedRunReachesTerminal ==
    [][\A c \in Clients :
          (pc[c] = "orphaned" /\ pc'[c] # "orphaned")
             => db_runs'[loc[c].attack_run.id].status \in {"completed", "failed"}]_vars

\* C11: a completing run started with total = N reports total = N at its end:
\* the batch that run_attack iterates, one transaction event and one count per
\* element, has N transactions.
C11_BatchHasRequestedTotal ==
    gen.pc = "returned" => gen.n_txns = gen.total

\* C12: in a completing run in which every verdict was the ground truth (a
\* scorer that flags exactly the frauds), the final stats have fp = 0 and
\* fn = 0, recall = 1.0, fpr = 0.0 and f1 = 1.0.
C12_ExactScorerPerfectMetrics ==
    \A c \in Clients :
        (pc[c] = "y_attack_end" /\ loc[c].agreed)
           => LET s == event[c].data
              IN  /\ s = current_stats
                  /\ s.fp = 0 /\ s.fn = 0
                  /\ s.recall = ROUND_SCALE
                  /\ s.fpr = 0
                  /\ s.f1 = ROUND_SCALE

\* such a run over a normal and a fraudulent transaction reports its end
C12_Witness ==
    \E c \in Clients :
        /\ pc[c] = "y_attack_end"
        /\ loc[c].agreed
        /\ event[c].data.tp = 1
        /\ event[c].data.tn = 1

\* C13: after every sequence of stats updates, the empty one included, recall,
\* precision, f1 and fpr are between 0 and 1, and f1 is 0 when precision +
\* recall is 0.
C13_MetricsInUnitInterval ==
    /\ \A m \in {stats.recall, stats.precision, stats.f1, stats.fpr} :
          m \in 0..ROUND_SCALE
    /\ stats.precision + stats.recall = 0 => stats.f1 = 0

\* updates with tp = fp = fn = 0: only approved normal transactions
C13_Witness ==
    /\ stats.total = 2
    /\ stats.tn = 2
    /\ stats.precision + stats.recall = 0
    /\ stats.f1 = 0

\* C14: start_filler while the filler is not running returns true and sets
\* is_running; while it is running it returns false and the loop task,
\* total_inserted, started_at, last_txn_at, interval_range and fraud_ratio keep
\* their values.
C14_StartFillerOnce ==
    [][(filler_ret.op = "none" /\ filler_ret'.op = "start")
          => IF filler_stats.is_running
             THEN /\ filler_ret'.value = FALSE
                  /\ UNCHANGED <<filler_task, filler_stats, filler_loop>>
             ELSE /\ filler_ret'.value = TRUE
                  /\ filler_stats'.is_running
                  /\ filler_task' # NoTask /\ filler_task' # filler_loop.task
                  /\ filler_loop'.pc = "created"]_vars

\* the second start is refused while the loop has inserted and is at work
C14_Witness ==
    /\ filler_ret = [op |-> "start", value |-> FALSE]
    /\ filler_stats.is_running
    /\ filler_stats.total_inserted > 0
    /\ filler_loop.pc = "f_score"

\* C15: stop_filler returns true exactly when the filler was running, and then
\* is_running is false and the loop task is cancelled; when the filler is not
\* running it returns false and the filler's state is unchanged.  The flag is
\* up exactly while a loop task is alive.
C15_StopFiller ==
    [][/\ (filler_ret.op = "none" /\ filler_ret'.op = "stop")
             => /\ filler_ret'.value = filler_stats.is_running
                /\ ~filler_stats'.is_running
                /\ IF filler_stats.is_running
                   THEN /\ filler_loop'.pc = "cancelled"
                        /\ filler_task' = NoTask
                        /\ filler_stats' = [filler_stats EXCEPT !.is_running = FALSE]
                   ELSE UNCHANGED <<filler_task, filler_stats, filler_loop>>
       /\ filler_loop.pc = "cancelled"
             => filler_loop' = filler_loop \/ filler_loop'.task # filler_loop.task
       /\ filler_stats'.is_running <=> filler_loop'.pc \in LoopPcs
       /\ filler_stats'.is_running <=> filler_task' # NoTask]_vars

\* the filler is stopped after it has inserted
C15_Witness ==
    /\ filler_ret = [op |-> "stop", value |-> TRUE]
    /\ ~filler_stats.is_running
    /\ filler_loop.pc = "cancelled"
    /\ filler_stats.total_inserted > 0

\* C16: between one start_filler and the next, total_inserted counts the loop
\* iterations whose generate, score and commit all succeeded: outside the
\* resumption that follows a commit, it is the number of rows the filler has
\* committed since it was started.
C16_TotalInsertedCountsCommits ==
    filler_loop.pc # "f_committed" => filler_stats.total_inserted = filler_rows

\* C17: a failure of scoring or of persistence does not end the loop: while
\* the filler is running, each iteration is followed by a further one, unless
\* the filler is stopped.
C17_LoopGoesOn ==
    \A n \in 0..(MaxIter - 1) :
        (filler_stats.is_running /\ filler_loop.txn_counter = n)
           ~> (~filler_stats.is_running \/ filler_loop.txn_counter = n + 1)

\* the first iteration failed to persist, the second one is under way
C17_Witness ==
    /\ filler_stats.is_running
    /\ filler_loop.txn_counter = 2
    /\ filler_loop.pc = "f_score"
    /\ filler_rows = 0
    /\ filler_stats.total_inserted = 0

Listed(o) == \E k \in DOMAIN dashboard_clients : dashboard_clients[k] = o

Dead(o) == \E k \in DOMAIN bcast.dead : bcast.dead[k] = o

\* C18: when broadcast returns, every observer whose delivery failed is off the list of
\* observers, and every other observer that was registered when the call began, is still
\* registered and connected, has received the event
C18_FailureSparesTheOthers ==
    bcast.pc = "returned" =>
        /\ \A o \in Observers : Dead(o) => ~Listed(o)
        /\ \A o \in bcast.registered :
              (Listed(o) /\ ~Dead(o) /\ obs_pc[o] \in {"snapshot", "listening"})
                  => /\ obs_recv[o] # <<>>
                     /\ obs_recv[o][Len(obs_recv[o])] = bcast.event

\* C19: a broadcast that is sending returns, whether or not the send to a slow
\* observer ever completes
C19_SlowObserverDoesNotBlock ==
    (bcast.pc = "sending") ~> (bcast.pc = "returned")

C21_RejectedRestCallGetsConflict ==
    [][\A c \in RestClients :
          (pc[c] = "y_error" /\ pc'[c] # "y_error")
             => LET r == RestResponse(c)
                IN  \/ r.status # 200
                    \/ r.stats # EmptyDict
                    \/ r.total_transactions # 0]_vars

\* C22: when a run started over /ws/attack fails after it was accepted, the client
\* has received an error event for it when its stream ends
C22_FailedWsRunDeliversError ==
    [][\A c \in WsClients :
          (pc[c] \in InRunPcs /\ pc'[c] = "crashed")
             => Count(events[c], "error") > 0]_vars

\* C23: a request whose total is outside [10, 10000] or whose fraud_pct is outside
\* [0.01, 0.5] is refused, on the REST entry point and on /ws/attack, with
\* attack_running, current_stats and the stored RunRecords as they were
C23_InvalidConfigChangesNothing ==
    [][\A c \in Clients :
          (pc[c] \in ReadyPcs /\ pc[c] # Invalid(c) /\ pc'[c] = Invalid(c))
             => /\ attack_running' = attack_running
                /\ current_stats' = current_stats
                /\ Stored' = Stored
                /\ loc'[c] = InitLoc]_vars

\* the REST call was refused while the socket's run had counted a transaction
C23_Witness ==
    \E c \in RestClients, d \in WsClients :
        /\ pc[c] = "http_422"
        /\ pc[d] = "y_txn"
        /\ attack_running
        /\ current_stats.total > 0
        /\ Len(db_runs) = 1

\* C24: the filler and the run orchestrator are independent: a step of start_filler,
\* stop_filler or the filler loop leaves attack_running and current_stats unchanged,
\* and a step of a request or a run leaves the filler's state and task unchanged
C24_FillerAndRunIndependent ==
    [][/\ fillVars' # fillVars
             => attack_running' = attack_running /\ current_stats' = current_stats
       /\ attackVars' # attackVars
             => filler_stats' = filler_stats /\ filler_task' = filler_task]_vars

\* the filler has inserted and is at work while a run has counted a transaction
C24_Witness ==
    \E c \in Clients :
        /\ pc[c] = "y_txn"
        /\ current_stats.total > 0
        /\ filler_stats.is_running
        /\ filler_stats.total_inserted > 0
        /\ filler_loop.pc = "f_score"

\* a transaction without the run prefix of its txn_id
Features(t) == [t EXCEPT !.txn_id = <<t.txn_id[1], t.txn_id[3]>>]

\* C25: two calls of generate_attack_batch with the same total, fraud_pct and seed
\* return sequences of the same length whose transactions agree, position by
\* position, in every field but the run prefix inside txn_id
C25_SameSeedSameBatch ==
    \A a, b \in DOMAIN batches.all_txns :
        LET x == batches.all_txns[a]
            y == batches.all_txns[b]
        IN  /\ Len(x) = Len(y)
            /\ \A k \in DOMAIN x :
                  /\ Features(x[k]) = Features(y[k])
                  /\ x[k].txn_id[2] = batches.prefix[a]

\* two calls drew different prefixes and returned batches of normal and fraudulent
\* transactions
C25_Witness ==
    /\ Len(batches.all_txns) = 2
    /\ batches.prefix[1] # batches.prefix[2]
    /\ batches.all_txns[1] # batches.all_txns[2]
    /\ \E j, k \in DOMAIN batches.all_txns[1] :
          /\ batches.all_txns[1][j].is_fraud
          /\ ~batches.all_txns[1][k].is_fraud

\* C26: no two transactions of one batch share a txn_id, and no transaction of one
\* call shares a txn_id with a transaction of another call
C26_TxnIdsUnique ==
    \A a, b \in DOMAIN batches.all_txns :
        LET x == batches.all_txns[a]
            y == batches.all_txns[b]
        IN  \A j \in DOMAIN x, k \in DOMAIN y :
               x[j].txn_id = y[k].txn_id => (a = b /\ j = k)

\* C27: each stats update changes the counters by one classification: fraud
\* and flagged adds one to tp, flagged and per_type[fraud_type]; fraud and not
\* flagged adds one to fn and approved; not fraud and flagged adds one to fp
\* and flagged; otherwise one to tn and approved; total grows by one in every
\* case, per_type_total[fraud_type] grows by one exactly when the transaction
\* is fraud, and every other counter keeps its value.
Inc(b) == IF b THEN 1 ELSE 0

C27_OneClassificationPerUpdate ==
    \A txn \in TxnKinds, is_flagged \in BOOLEAN :
        LET n == UpdateStats(stats, txn.is_fraud, txn.fraud_type, is_flagged)
            f == txn.is_fraud
        IN  /\ n.total = stats.total + 1
            /\ n.tp = stats.tp + Inc(f /\ is_flagged)
            /\ n.fn = stats.fn + Inc(f /\ ~is_flagged)
            /\ n.fp = stats.fp + Inc(~f /\ is_flagged)
            /\ n.tn = stats.tn + Inc(~f /\ ~is_flagged)
            /\ n.flagged = stats.flagged + Inc(is_flagged)
            /\ n.approved = stats.approved + Inc(~is_flagged)
            /\ \A t \in FraudTypes :
                  /\ n.per_type[t] =
                        stats.per_type[t] + Inc(f /\ is_flagged /\ t = txn.fraud_type)
                  /\ n.per_type_total[t] =
                        stats.per_type_total[t] + Inc(f /\ t = txn.fraud_type)

\* updates of all four classifications have been applied, the frauds of two types
C27_Witness ==
    /\ stats.tp = 1 /\ stats.fn = 1 /\ stats.fp = 1 /\ stats.tn = 1
    /\ stats.per_type["velocity_attack"] = 1
    /\ stats.per_type_total["card_testing"] = 1

\* C28: during a run a stats_update event follows the transaction event of every
\* 10th transaction and of the last one, and of no other: when the generator is
\* resumed after a transaction event, it yields a stats_update exactly when the
\* number of transaction events emitted so far is a multiple of 10 or the size
\* of the batch.
C28_StatsUpdateEveryTenth ==
    [][\A c \in Clients :
          (pc[c] = "y_txn" /\ pc'[c] \in {"y_stats", "a_sleep"}) =>
              LET n == Count(events[c], "transaction")
              IN  (pc'[c] = "y_stats") <=>
                      (n % STATS_EVERY = 0 \/ n = Len(loc[c].all_txns))]_vars

\* C29: at every point of a run with a storage session, at most 49 transactions
\* are scored and added to the session but not committed, so a failure at any
\* point, a batch commit included, loses at most 49 scored rows.
C29_AtMost49Uncommitted ==
    /\ persist.pending <= COMMIT_EVERY - 1
    /\ persist.lost <= COMMIT_EVERY - 1

\* C30: when a run with a storage session completes, every scored transaction of
\* the run is committed with the run's id, and the RunRecord is committed with
\* status completed and the final stats snapshot, before attack_end is emitted;
\* the stats of attack_end are the persisted snapshot.
C30_PersistedBeforeAttackEnd ==
    \A c \in Clients :
        pc[c] = "y_attack_end" =>
            LET id == loc[c].attack_run.id
            IN  /\ id \in DOMAIN db_runs
                /\ db_txns[id] = Len(loc[c].all_txns)
                /\ db_runs[id].status = "completed"
                /\ db_runs[id].stats.total = Len(loc[c].all_txns)
                /\ event[c].type = "attack_end"
                /\ event[c].data = db_runs[id].stats

\* attack_end of a run of two frauds, one detected and one missed
C30_Witness ==
    \E c \in Clients :
        /\ pc[c] = "y_attack_end"
        /\ event[c].data.tp = 1
        /\ event[c].data.fn = 1
        /\ db_runs[loc[c].attack_run.id].stats.total = 2

\* C31: every transaction event of a run has is_flagged = (risk_score >= threshold),
\* threshold being the value the model-info call of the run reported, or the
\* default when that call failed, whichever path scored the transaction.
C31_FlaggedIffAtThreshold ==
    \A c \in Clients :
        event[c].type = "transaction" =>
            (event[c].data.is_flagged <=> event[c].data.risk_score >= loc[c].threshold)

\* C32: the explain call is made only for a flagged transaction; the transaction
\* event of an unflagged transaction carries an empty xai_reasons list; and when
\* the explain call is over, failed or not, the run goes on with the same
\* transaction, whose event carries an empty list if the call failed.
C32_ExplainOnlyFlaggedNeverAborts ==
    [][\A c \in Clients :
          /\ pc'[c] = "a_explain" => loc'[c].is_flagged
          /\ (event'[c].type = "transaction" /\ ~event'[c].data.is_flagged)
                => event'[c].data.xai_reasons = 0
          /\ (pc[c] = "a_explain" /\ pc'[c] # "a_explain")
                => /\ pc'[c] \in {"a_batch_commit", "y_txn"}
                   /\ loc'[c].i = loc[c].i
                   /\ loc'[c].all_txns = loc[c].all_txns
                   /\ loc'[c].is_flagged]_vars

\* the event of a flagged transaction whose explain call failed
C32_Witness ==
    \E c \in Clients :
        /\ event[c].type = "transaction"
        /\ event[c].data.is_flagged
        /\ event[c].data.xai_reasons = 0
        /\ pc[c] = "y_txn"

\* C33: RunStats follows the run: an accepted start resets all counters and
\* per-type maps; each processed transaction changes them once, when its event is
\* yielded; and nothing else changes them, so that after the run has ended,
\* completed or failed, get_stats() returns the last values until the next
\* accepted start.
Processing(c) == pc[c] \in {"a_score", "a_explain", "a_batch_commit"}

C33_StatsFollowRun ==
    [][\A c \in Clients :
          LET accepted == pc[c] \in ReadyPcs /\ pc'[c] = "a_hdr_commit"
              processed == Processing(c) /\ pc'[c] = "y_txn"
          IN  /\ accepted => current_stats' = StatsSnapshot
              /\ processed => /\ current_stats'.total = current_stats.total + 1
                              /\ current_stats'.total = loc[c].i + 1
              /\ (current_stats' # current_stats)
                    => \E d \in Clients :
                          \/ pc[d] \in ReadyPcs /\ pc'[d] = "a_hdr_commit"
                          \/ Processing(d) /\ pc'[d] = "y_txn"]_vars

\* a second run has been accepted after a run that counted two transactions: the
\* statistics are back at zero while the first RunRecord keeps its results
C33_Witness ==
    \E c \in Clients :
        /\ pc[c] = "a_hdr_commit"
        /\ Len(db_runs) = 1
        /\ db_runs[1].stats.total = 2
        /\ current_stats = StatsSnapshot

\* C34: in a completing run the transaction events follow the generated batch,
\* one per generated transaction and in its order, so the total of attack_start,
\* the number of transaction events, the total of the stats of attack_end and
\* total_transactions of the REST response are the same number.
StreamingPcs ==
    {"y_attack_start", "a_score", "a_explain", "a_batch_commit", "y_txn", "y_stats",
     "a_sleep", "a_final_commit", "a_finalize_commit", "y_log_done", "y_attack_end"}

C34_OneEventPerTransaction ==
    [][\A c \in Clients :
          LET n == Count(events'[c], "transaction")
              all_txns == loc'[c].all_txns
          IN  /\ pc'[c] = "y_attack_start" => event'[c].data.total = Len(all_txns)
              /\ (pc[c] \in StreamingPcs /\ pc'[c] \in StreamingPcs)
                    => all_txns = loc[c].all_txns
              /\ pc'[c] = "y_txn"
                    => /\ n \in 1..Len(all_txns)
                       /\ event'[c].data.index = n - 1
                       /\ event'[c].data.is_fraud = all_txns[n].is_fraud
                       /\ event'[c].data.fraud_type = all_txns[n].fraud_type
                       /\ pc[c] # "y_txn" => n = Count(events[c], "transaction") + 1
              /\ pc'[c] = "y_attack_end"
                    => /\ n = Len(all_txns)
                       /\ event'[c].data.total = n
                       /\ c \in RestClients
                             => /\ RestResponse(c)'.total_transactions = n
                                /\ RestResponse(c)'.stats.total = n]_vars

\* the REST handler holds attack_end of a run of two transactions of different kinds
C34_Witness ==
    \E c \in RestClients :
        /\ pc[c] = "y_attack_end"
        /\ RestResponse(c).total_transactions = 2
        /\ loc[c].all_txns[1] # loc[c].all_txns[2]

\* C35: stopping the filler is commit-or-nothing, whatever the point of the
\* iteration it falls on: once the filler is stopped, total_inserted is the number
\* of transactions the filler has committed since it was last started.
C35_StopIsCommitOrNothing ==
    ~filler_stats.is_running => filler_stats.total_inserted = filler_rows

C37_ExactlyOncePerCall ==
    (bcast.pc = "returned" /\ bcast.calls = 1) =>
        \A o \in bcast.registered :
            (Listed(o) /\ ~Dead(o) /\ obs_pc[o] \in {"snapshot", "listening"})
                => Count(obs_recv[o], bcast.event) = 1

\* C38: once the handler of a /ws/dashboard connection has ended, whatever the
\* reason, its socket is off dashboard_clients: the list holds only sockets whose
\* handler is running.
C38_ListedHandlersRun ==
    \A o \in Observers : Listed(o) => obs_pc[o] \in {"snapshot", "listening"}

\* C39: in every snapshot observable during or after a run (the current
\* statistics, the data of stats_update and attack_end, the stored results) the
\* per-type maps agree with the confusion counters: per_type sums to tp,
\* per_type_total sums to tp + fn, per_type[t] <= per_type_total[t] for every
\* fraud type t, and roi_saved = tp * 1500000.
RECURSIVE SumOver(_, _)
SumOver(f, S) ==
    IF S = {} THEN 0
    ELSE LET t == CHOOSE x \in S : TRUE IN f[t] + SumOver(f, S \ {t})

PerTypeConsistent(s) ==
    /\ SumOver(s.per_type, FraudTypes) = s.tp
    /\ SumOver(s.per_type_total, FraudTypes) = s.tp + s.fn
    /\ \A t \in FraudTypes : s.per_type[t] <= s.per_type_total[t]
    /\ s.roi_saved = s.tp * ROI_UNIT

C39_PerTypeMatchesCounters ==
    /\ PerTypeConsistent(current_stats)
    /\ \A c \in Clients :
          event[c].type \in {"stats_update", "attack_end"}
              => PerTypeConsistent(event[c].data)
    /\ \A k \in DOMAIN db_runs : PerTypeConsistent(db_runs[k].stats)

\* attack_end after a detected fraud of one type and a missed fraud of another
C39_Witness ==
    \E c \in Clients :
        /\ event[c].type = "attack_end"
        /\ event[c].data.per_type["velocity_attack"] = 1
        /\ event[c].data.per_type_total["card_testing"] = 1
        /\ event[c].data.per_type["card_testing"] = 0
        /\ event[c].data.roi_saved = ROI_UNIT

\* C40: every group gen_card_testing produces is 4 to 7 probes followed by one
\* final transaction of the same payer, whose amount is at least 50 times the
\* amount of each probe: for the group drawn at any position of the rng of the
\* call's seed, and for the card_testing transactions of every generated batch.
CardTestingGroup(g) ==
    LET n_probes == Len(g) - 1
        final == g[Len(g)]
    IN  /\ n_probes \in 4..7
        /\ \A i \in 1..n_probes :
              /\ g[i].payer = final.payer
              /\ g[i].fraud_type = "card_testing" /\ g[i].is_fraud
              /\ g[i].txn_id[3] = g[1].txn_id[3] + i - 1
              /\ final.amount_idr >= 50 * g[i].amount_idr
              /\ g[i].amount_idr * 50 > g[1].amount_idr
        /\ final.fraud_type = "card_testing" /\ final.is_fraud
        /\ final.txn_id[3] = g[1].txn_id[3] + n_probes

CardTestingInBatch(b) ==
    LET ct == SelectSeq(b, LAMBDA t : t.fraud_type = "card_testing")
        IsFinal(t) == \E j \in DOMAIN ct : t.amount_idr >= 50 * ct[j].amount_idr
        finals == {j \in DOMAIN ct : IsFinal(ct[j])}
        probes == DOMAIN ct \ finals
    IN  /\ finals # {}
        /\ 4 * Cardinality(finals) <= Cardinality(probes)
        /\ Cardinality(probes) <= 7 * Cardinality(finals)
        /\ \A j \in probes :
              \E f \in finals :
                  /\ ct[f].payer = ct[j].payer
                  /\ ct[f].amount_idr >= 50 * ct[j].amount_idr
                  /\ ct[f].txn_id[3] > ct[j].txn_id[3]
                  /\ ct[f].txn_id[3] - ct[j].txn_id[3] <= 7

C40_CardTestingGroups ==
    /\ \A k \in 0..MaxRngPosition, run_id_prefix \in Prefixes :
          CardTestingGroup(gen_card_testing(batches.args.seed, k, k + 1, run_id_prefix).txns)
    /\ \A a \in DOMAIN batches.all_txns : CardTestingInBatch(batches.all_txns[a])

\* a batch has been generated with its card_testing transactions, and the rng of
\* its seed gives groups of 4 and of 7 probes and a probe above 34000 IDR
C40_Witness ==
    /\ batches.all_txns # <<>>
    /\ \E j \in DOMAIN batches.all_txns[1] :
          /\ batches.all_txns[1][j].fraud_type = "card_testing"
          /\ batches.all_txns[1][j].amount_idr >= 3000000
    /\ \A n \in {4, 7} :
          \E k \in 0..MaxRngPosition :
              Len(gen_card_testing(batches.args.seed, k, 1, "beef").txns) = n + 1
    /\ \E k \in 0..MaxRngPosition :
          gen_card_testing(batches.args.seed, k, 1, "beef").txns[1].amount_idr > 34000

====
